---- MODULE Spec2Model ----
(***************************************************************************)
(* A model of the inference runtime's session surface (crates/ir-ffi) and  *)
(* of the parts of ir-model and ir-sampler it drives: the GGUF metadata    *)
(* getters, the BPE tokenizer, the LLaMA forward pass with its KV cache,   *)
(* and the sampler chain.                                                  *)
(*                                                                         *)
(* Text is a sequence of bytes (naturals below 256).  f32 values are       *)
(* abstracted to integers: a logit is an integer, a K/V row and a hidden   *)
(* state are residues computed from the same inputs the code computes      *)
(* them from (see Embd, KProj, VProj, Attention, Ffn, LmHead).             *)
(***************************************************************************)
EXTENDS Integers, Sequences, FiniteSets, TLC

\* ------------------------------------------------------------------------
\* Results of fallible operations: Ok(v), Err(e), or a panic (unwinding).
\* ------------------------------------------------------------------------
Ok(v) == [tag |-> "ok", val |-> v]
Err(e) == [tag |-> "err", err |-> e]
IsOk(r) == r.tag = "ok"

\* ------------------------------------------------------------------------
\* Sequence helpers
\* ------------------------------------------------------------------------
Range(s) == {s[i] : i \in 1..Len(s)}

Take(s, n) == SubSeq(s, 1, IF n < Len(s) THEN n ELSE Len(s))

RECURSIVE Concat(_)
Concat(ss) == IF ss = <<>> THEN <<>> ELSE Head(ss) \o Concat(Tail(ss))

RECURSIVE SumSeq(_)
SumSeq(s) == IF s = <<>> THEN 0 ELSE Head(s) + SumSeq(Tail(s))

\* ------------------------------------------------------------------------
\* GGUF metadata: a table from key to [kind, val]; an Array's val is a
\* sequence of [kind, val].
\* ------------------------------------------------------------------------
TypeMismatch(key, expected, got) ==
    Err([kind |-> "TypeMismatch", key |-> key, expected |-> expected, got |-> got])

MissingKey(key) == Err([kind |-> "MissingKey", key |-> key])

GetScalar(md, key, kind) ==
    IF key \notin DOMAIN md THEN MissingKey(key)
    ELSE IF md[key].kind = kind THEN Ok(md[key].val)
    ELSE TypeMismatch(key, kind, md[key].kind)

get_string(md, key) == GetScalar(md, key, "String")

get_u32(md, key) == GetScalar(md, key, "U32")

get_u64(md, key) == GetScalar(md, key, "U64")

get_i32(md, key) == GetScalar(md, key, "I32")

get_f32(md, key) == GetScalar(md, key, "F32")

\* The index (from 1) of the first element of arr whose kind is not kind, 0
\* when there is none.
RECURSIVE FirstNotOfKind(_, _, _)
FirstNotOfKind(arr, kind, i) ==
    IF i > Len(arr) THEN 0
    ELSE IF arr[i].kind # kind THEN i
    ELSE FirstNotOfKind(arr, kind, i + 1)

GetArray(md, key, kind) ==
    IF key \notin DOMAIN md THEN MissingKey(key)
    ELSE IF md[key].kind # "Array" THEN TypeMismatch(key, "Array", md[key].kind)
    ELSE LET arr == md[key].val
             bad == FirstNotOfKind(arr, kind, 1)
         IN  IF bad # 0
             THEN TypeMismatch(key \o "[" \o ToString(bad - 1) \o "]", kind, arr[bad].kind)
             ELSE Ok([i \in 1..Len(arr) |-> arr[i].val])

get_string_array(md, key) == GetArray(md, key, "String")

get_f32_array(md, key) == GetArray(md, key, "F32")

\* Result::unwrap_or / unwrap_or_default
UnwrapOr(r, d) == IF IsOk(r) THEN r.val ELSE d

\* ------------------------------------------------------------------------
\* Vocabulary and BPE tokenizer (tokenizer/vocab.rs, tokenizer/bpe.rs)
\* ------------------------------------------------------------------------
TokenizerError(msg) == Err([kind |-> "TokenizerError", msg |-> msg])

VocabFromGguf(md) ==
    LET tokens == get_string_array(md, "tokenizer.ggml.tokens")
        scores == get_f32_array(md, "tokenizer.ggml.scores")
        bos == get_u32(md, "tokenizer.ggml.bos_token_id")
        eos == get_u32(md, "tokenizer.ggml.eos_token_id")
    IN  IF ~IsOk(tokens) THEN tokens
        ELSE IF ~IsOk(scores) THEN scores
        ELSE IF Len(tokens.val) # Len(scores.val)
             THEN TokenizerError("tokens length does not match scores length")
        ELSE IF ~IsOk(bos) THEN bos
        ELSE IF ~IsOk(eos) THEN eos
        ELSE Ok([tokens |-> tokens.val, scores |-> scores.val,
                 bos_id |-> bos.val, eos_id |-> eos.val])

\* A faulty lookup: ids counted from 1.
TokenToIdFromOne(vocab, s) ==
    CHOOSE i \in 1..Len(vocab.tokens) :
        /\ vocab.tokens[i] = s
        /\ \A j \in 1..Len(vocab.tokens) : vocab.tokens[j] = s => j <= i

\* token_to_id: a later duplicate overwrites an earlier one.
contains_key(vocab, s) == \E i \in 1..Len(vocab.tokens) : vocab.tokens[i] = s

token_to_id(vocab, s) ==
    (CHOOSE i \in 1..Len(vocab.tokens) :
        /\ vocab.tokens[i] = s
        /\ \A j \in 1..Len(vocab.tokens) : vocab.tokens[j] = s => j <= i) - 1

\* entry.splitn(2, ' '): the index of the first space (byte 32), 0 if none.
RECURSIVE FirstSpace(_, _)
FirstSpace(entry, i) ==
    IF i > Len(entry) THEN 0
    ELSE IF entry[i] = 32 THEN i
    ELSE FirstSpace(entry, i + 1)

SplitMerge(entry) ==
    LET sp == FirstSpace(entry, 1)
    IN  IF sp = 0 THEN <<entry>>
        ELSE <<SubSeq(entry, 1, sp - 1), SubSeq(entry, sp + 1, Len(entry))>>

RECURSIVE ParseMerges(_, _)
ParseMerges(merge_strings, i) ==
    IF i > Len(merge_strings) THEN Ok(<<>>)
    ELSE LET parts == SplitMerge(merge_strings[i])
         IN  IF Len(parts) # 2 THEN TokenizerError("invalid merge entry")
             ELSE LET rest == ParseMerges(merge_strings, i + 1)
                  IN  IF IsOk(rest) THEN Ok(<<parts>> \o rest.val) ELSE rest

BpeFromGguf(md) ==
    LET vocab == VocabFromGguf(md)
        merge_strings == UnwrapOr(get_string_array(md, "tokenizer.ggml.merges"), <<>>)
        merges == ParseMerges(merge_strings, 1)
    IN  IF ~IsOk(vocab) THEN vocab
        ELSE IF ~IsOk(merges) THEN merges
        ELSE Ok([vocab |-> vocab.val, merges |-> merges.val])

\* merge_ranks: HashMap insert keeps the rank of the last occurrence.
HasRank(tk, pair) == \E r \in 1..Len(tk.merges) : tk.merges[r] = pair

merge_rank(tk, pair) ==
    (CHOOSE r \in 1..Len(tk.merges) :
        /\ tk.merges[r] = pair
        /\ \A q \in 1..Len(tk.merges) : tk.merges[q] = pair => q <= r) - 1

\* format!("<0x{:02X}>", byte)
HexDigit(n) == IF n < 10 THEN 48 + n ELSE 55 + n

ByteToken(byte) == <<60, 48, 120, HexDigit(byte \div 16), HexDigit(byte % 16), 62>>

\* (byte as char).to_string(): bytes from 128 up are two UTF-8 bytes.
ChStr(byte) ==
    IF byte < 128 THEN <<byte>> ELSE <<192 + (byte \div 64), 128 + (byte % 64)>>

InitialToken(tk, byte) ==
    IF contains_key(tk.vocab, ChStr(byte)) THEN ChStr(byte)
    ELSE IF contains_key(tk.vocab, ByteToken(byte)) THEN ByteToken(byte)
    ELSE ChStr(byte)

\* BestIdx taking the rightmost pair of lowest rank
RECURSIVE BestIdxRightmost(_, _, _, _, _)
BestIdxRightmost(tk, tokens, i, best_rank, best_idx) ==
    IF i > Len(tokens) - 1 THEN best_idx
    ELSE LET pair == <<tokens[i], tokens[i + 1]>>
         IN  IF HasRank(tk, pair) /\ (best_idx = 0 \/ merge_rank(tk, pair) <= best_rank)
             THEN BestIdxRightmost(tk, tokens, i + 1, merge_rank(tk, pair), i)
             ELSE BestIdxRightmost(tk, tokens, i + 1, best_rank, best_idx)

\* One scan of the adjacent pairs: the index of the leftmost pair of lowest
\* rank, 0 when no pair has a rank.
RECURSIVE BestIdx(_, _, _, _, _)
BestIdx(tk, tokens, i, best_rank, best_idx) ==
    IF i > Len(tokens) - 1 THEN best_idx
    ELSE LET pair == <<tokens[i], tokens[i + 1]>>
         IN  IF HasRank(tk, pair) /\ (best_idx = 0 \/ merge_rank(tk, pair) < best_rank)
             THEN BestIdx(tk, tokens, i + 1, merge_rank(tk, pair), i)
             ELSE BestIdx(tk, tokens, i + 1, best_rank, best_idx)

MergeAt(tokens, i) ==
    SubSeq(tokens, 1, i - 1) \o <<tokens[i] \o tokens[i + 1]>>
        \o SubSeq(tokens, i + 2, Len(tokens))

RECURSIVE BpeMerge(_, _)
BpeMerge(tk, tokens) ==
    IF Len(tokens) < 2 THEN tokens
    ELSE LET Apply(best) ==
                 IF best = 0 THEN tokens ELSE BpeMerge(tk, MergeAt(tokens, best))
         IN  Apply(BestIdx(tk, tokens, 1, 0, 0))

encode(tk, text) ==
    IF text = <<>> THEN <<>>
    ELSE LET start == [i \in 1..Len(text) |-> InitialToken(tk, text[i])]
             ToIds(merged) ==
                 [i \in 1..Len(merged) |->
                     IF contains_key(tk.vocab, merged[i])
                     THEN token_to_id(tk.vocab, merged[i]) ELSE 0]
         IN  ToIds(BpeMerge(tk, start))

\* u8::from_str_radix(s, 16) of a two-byte string: -1 when it fails.
HexVal(c) ==
    IF c >= 48 /\ c <= 57 THEN c - 48
    ELSE IF c >= 65 /\ c <= 70 THEN c - 55
    ELSE IF c >= 97 /\ c <= 102 THEN c - 87
    ELSE -1

FromStrRadix16(s) ==
    IF s[1] = 43
    THEN HexVal(s[2])
    ELSE IF HexVal(s[1]) < 0 \/ HexVal(s[2]) < 0 THEN -1
    ELSE 16 * HexVal(s[1]) + HexVal(s[2])

IsByteToken(tok) ==
    /\ Len(tok) = 6
    /\ SubSeq(tok, 1, 3) = <<60, 48, 120>>
    /\ tok[6] = 62
    /\ FromStrRadix16(SubSeq(tok, 4, 5)) >= 0

TokenBytes(tk, id) ==
    IF id >= Len(tk.vocab.tokens) THEN <<>>
    ELSE LET tok == tk.vocab.tokens[id + 1]
         IN  IF IsByteToken(tok) THEN <<FromStrRadix16(SubSeq(tok, 4, 5))>> ELSE tok

\* String::from_utf8_lossy on the bytes the model's vocabularies produce:
\* ASCII is kept; a lead byte C2..DF followed by a continuation byte is a
\* valid two-byte character; any other byte from 128 up becomes U+FFFD.
RECURSIVE Utf8Lossy(_)
Utf8Lossy(bytes) ==
    IF bytes = <<>> THEN <<>>
    ELSE IF bytes[1] < 128 THEN <<bytes[1]>> \o Utf8Lossy(Tail(bytes))
    ELSE IF /\ bytes[1] >= 194 /\ bytes[1] <= 223 /\ Len(bytes) >= 2
            /\ bytes[2] >= 128 /\ bytes[2] <= 191
         THEN <<bytes[1], bytes[2]>> \o Utf8Lossy(Tail(Tail(bytes)))
    ELSE <<239, 191, 189>> \o Utf8Lossy(Tail(bytes))

decode(tk, ids) ==
    Utf8Lossy(Concat([i \in 1..Len(ids) |-> TokenBytes(tk, ids[i])]))

\* CString::new(text) fails when the text holds a NUL byte.
CStringNew(text) == IF 0 \in Range(text) THEN Err("nul byte") ELSE Ok(text)

\* ------------------------------------------------------------------------
\* Sampler chain (ir-sampler).  The working vector is a sequence of
\* [token_id, logit]; a logit is an integer.  An f32 parameter is a
\* rational [num, den] with den > 0; as a temperature, [1, 0] is the f32
\* +infinity, by which every finite logit divides to 0.
\* ------------------------------------------------------------------------
Rat(n, d) == [num |-> n, den |-> d]

\* sort_by(|a, b| b.logit.partial_cmp(&a.logit)): a stable sort, descending.
RECURSIVE InsertDesc(_, _)
InsertDesc(sorted, t) ==
    IF sorted = <<>> THEN <<t>>
    ELSE IF Head(sorted).logit >= t.logit
         THEN <<Head(sorted)>> \o InsertDesc(Tail(sorted), t)
    ELSE <<t>> \o sorted

RECURSIVE SortDescFrom(_, _, _)
SortDescFrom(L, i, acc) ==
    IF i > Len(L) THEN acc ELSE SortDescFrom(L, i + 1, InsertDesc(acc, L[i]))

Reverse(L) == [i \in 1..Len(L) |-> L[Len(L) + 1 - i]]

\* A faulty sort: entries with equal logits come out in the opposite order.
SortDescTiesReversed(L) == Reverse(SortDescFrom(Reverse(L), 1, <<>>))

SortDesc(L) == SortDescFrom(L, 1, <<>>)

\* RepetitionPenaltySampler::apply: logit / penalty when positive, else
\* logit * penalty, for the ids of the window.  The quotient is the integer
\* part of the exact value.
Penalize(logit, penalty) ==
    IF logit > 0 THEN (logit * penalty.den) \div penalty.num
    ELSE (logit * penalty.num) \div penalty.den

RepetitionApply(penalty, recent_tokens, L) ==
    [i \in 1..Len(L) |->
        IF L[i].token_id \in Range(recent_tokens)
        THEN [token_id |-> L[i].token_id, logit |-> Penalize(L[i].logit, penalty)]
        ELSE L[i]]

\* A faulty add_token: a push onto a full window drops the id just pushed.
AddTokenDropNewest(recent_tokens, max_history, token) ==
    IF Len(recent_tokens) >= max_history THEN recent_tokens
    ELSE Append(recent_tokens, token)

\* RepetitionPenaltySampler::add_token
add_token(recent_tokens, max_history, token) ==
    LET pushed == Append(recent_tokens, token)
    IN  IF Len(pushed) > max_history THEN Tail(pushed) ELSE pushed

\* TemperatureSampler::apply: temp is 1e-7 when temperature <= 0.  The
\* temperatures of the model are 1/den or <= 0, so the quotient is exact.
ClampTemp(temperature) == IF temperature.num <= 0 THEN Rat(1, 10000000) ELSE temperature

TemperatureApply(temperature, L) ==
    LET temp == ClampTemp(temperature)
    IN  [i \in 1..Len(L) |->
            [token_id |-> L[i].token_id, logit |-> (L[i].logit * temp.den) \div temp.num]]

\* A faulty top-k: truncates without sorting.
TopKNoSort(k, L) == IF k = 0 \/ k >= Len(L) THEN L ELSE Take(L, k)

\* TopKSampler::apply
TopKApply(k, L) == IF k = 0 \/ k >= Len(L) THEN L ELSE Take(SortDesc(L), k)

\* exp(-d) for an integer d >= 0, in units of 1/10000.
ExpNeg(d) ==
    IF d = 0 THEN 10000 ELSE IF d = 1 THEN 3679 ELSE IF d = 2 THEN 1353
    ELSE IF d = 3 THEN 498 ELSE IF d = 4 THEN 183 ELSE IF d = 5 THEN 67
    ELSE IF d = 6 THEN 25 ELSE IF d = 7 THEN 9 ELSE IF d = 8 THEN 3
    ELSE IF d = 9 THEN 1 ELSE 0

\* The cutoff loop of TopPSampler::apply: cumulative > p, with
\* prob = exps[i] / sum compared without dividing.
\* A faulty cutoff: stops as soon as the cumulative probability reaches p.
RECURSIVE TopPCutoffAtLeast(_, _, _, _, _)
TopPCutoffAtLeast(exps, sum, p, i, cumulative) ==
    IF i > Len(exps) THEN Len(exps)
    ELSE IF (cumulative + exps[i]) * p.den >= p.num * sum THEN i
    ELSE TopPCutoffAtLeast(exps, sum, p, i + 1, cumulative + exps[i])

RECURSIVE TopPCutoff(_, _, _, _, _)
TopPCutoff(exps, sum, p, i, cumulative) ==
    IF i > Len(exps) THEN Len(exps)
    ELSE IF (cumulative + exps[i]) * p.den > p.num * sum THEN i
    ELSE TopPCutoff(exps, sum, p, i + 1, cumulative + exps[i])

TopPApply(p, L) ==
    IF L = <<>> THEN L
    ELSE LET Exps(sorted) ==
                 [i \in 1..Len(sorted) |-> ExpNeg(sorted[1].logit - sorted[i].logit)]
             Cutoff(exps) == TopPCutoff(exps, SumSeq(exps), p, 1, 0)
             Truncate(sorted, cutoff) == Take(sorted, IF cutoff = 0 THEN 1 ELSE cutoff)
             Apply(sorted) == Truncate(sorted, Cutoff(Exps(sorted)))
         IN  Apply(SortDesc(L))

\* GreedySampler::apply
GreedyApply(L) == IF L = <<>> THEN L ELSE Take(SortDesc(L), 1)

\* SamplerChain::sample: token ids are the indices of the logits, from 0.
ToTokenLogits(logits) == [i \in 1..Len(logits) |-> [token_id |-> i - 1, logit |-> logits[i]]]

FirstTokenOr0(L) == IF L = <<>> THEN 0 ELSE L[1].token_id

\* The chain ir_generate builds: the repetition window is created empty and
\* the chain is immutable afterwards.
GenerateChain(params, logits) ==
    FirstTokenOr0(
        GreedyApply(
            TopPApply(params.top_p,
                TopKApply(params.top_k,
                    TemperatureApply(params.temperature,
                        RepetitionApply(params.repetition_penalty, <<>>,
                            ToTokenLogits(logits)))))))

\* The chain ir_generate_streaming builds.
StreamingChain(params, logits) ==
    FirstTokenOr0(
        GreedyApply(
            TopPApply(params.top_p,
                TopKApply(params.top_k,
                    TemperatureApply(params.temperature, ToTokenLogits(logits))))))

\* The samplers a chain is built from (SamplerChain::with).
RepetitionPenalty(penalty, recent_tokens) ==
    [kind |-> "repetition_penalty", penalty |-> penalty, recent_tokens |-> recent_tokens]
Temperature(temperature) == [kind |-> "temperature", temperature |-> temperature]
TopK(k) == [kind |-> "top_k", k |-> k]
TopP(p) == [kind |-> "top_p", p |-> p]
Greedy == [kind |-> "greedy"]

\* Sampler::apply, by the sampler's kind
Apply(sampler, L) ==
    IF sampler.kind = "repetition_penalty"
    THEN RepetitionApply(sampler.penalty, sampler.recent_tokens, L)
    ELSE IF sampler.kind = "temperature" THEN TemperatureApply(sampler.temperature, L)
    ELSE IF sampler.kind = "top_k" THEN TopKApply(sampler.k, L)
    ELSE IF sampler.kind = "top_p" THEN TopPApply(sampler.p, L)
    ELSE GreedyApply(L)

\* for sampler in &self.samplers { sampler.apply(&mut token_logits) }
RECURSIVE ApplyAll(_, _, _)
ApplyAll(samplers, i, L) ==
    IF i > Len(samplers) THEN L ELSE ApplyAll(samplers, i + 1, Apply(samplers[i], L))

\* SamplerChain::sample
sample(samplers, logits) == FirstTokenOr0(ApplyAll(samplers, 1, ToTokenLogits(logits)))

\* RepetitionPenaltySampler::reset
RepetitionReset(recent_tokens) == <<>>

\* ------------------------------------------------------------------------
\* LLaMA configuration, weights and KV cache (ir-model/src/llama)
\* ------------------------------------------------------------------------
\* LlamaConfig::from_gguf.  n_embd / n_heads panics when n_heads = 0.
ConfigFromGguf(md) ==
    LET n_embd == get_u32(md, "llama.embedding_length")
        n_heads == get_u32(md, "llama.attention.head_count")
        n_kv_heads == get_u32(md, "llama.attention.head_count_kv")
        n_layers == get_u32(md, "llama.block_count")
        n_ff == get_u32(md, "llama.feed_forward_length")
        norm_eps == get_f32(md, "llama.attention.layer_norm_rms_epsilon")
        max_seq_len == get_u32(md, "llama.context_length")
        rope_theta == UnwrapOr(get_f32(md, "llama.rope.freq_base"), 10000)
        tokens == get_string_array(md, "tokenizer.ggml.tokens")
    IN  IF ~IsOk(n_embd) THEN n_embd
        ELSE IF ~IsOk(n_heads) THEN n_heads
        ELSE IF ~IsOk(n_kv_heads) THEN n_kv_heads
        ELSE IF ~IsOk(n_layers) THEN n_layers
        ELSE IF ~IsOk(n_ff) THEN n_ff
        ELSE IF ~IsOk(norm_eps) THEN norm_eps
        ELSE IF ~IsOk(max_seq_len) THEN max_seq_len
        ELSE IF ~IsOk(tokens) THEN tokens
        ELSE IF n_heads.val = 0 THEN [tag |-> "panic"]
        ELSE Ok([n_vocab |-> Len(tokens.val), n_embd |-> n_embd.val,
                 n_heads |-> n_heads.val, n_kv_heads |-> n_kv_heads.val,
                 n_layers |-> n_layers.val, n_ff |-> n_ff.val,
                 norm_eps |-> norm_eps.val, max_seq_len |-> max_seq_len.val,
                 rope_theta |-> rope_theta,
                 head_dim |-> n_embd.val \div n_heads.val])

\* The tensors LlamaWeights::from_gguf loads, in its order.
LayerTensors == <<"attn_norm", "attn_q", "attn_k", "attn_v", "attn_output",
                  "ffn_norm", "ffn_gate", "ffn_up", "ffn_down">>

\* format!("blk.{}.<name>.weight", i)
Blk(i, name) == "blk." \o ToString(i) \o "." \o name \o ".weight"

RECURSIVE BlockTensors(_, _)
BlockTensors(i, n_layers) ==
    IF i >= n_layers THEN <<>>
    ELSE [j \in 1..Len(LayerTensors) |-> Blk(i, LayerTensors[j])]
             \o BlockTensors(i + 1, n_layers)

\* GgufFile::get_tensor_f32: TensorNotFound for an absent name; the slice
\* mmap[start..start + size] of tensor_data panics when the file is short.
get_tensor_f32(tensors, name) ==
    IF name \notin DOMAIN tensors THEN Err([kind |-> "TensorNotFound", name |-> name])
    ELSE IF tensors[name].short THEN [tag |-> "panic"]
    ELSE Ok(tensors[name].numel)

\* Loads names[i..] in order; numel collects the lengths of the f32 buffers.
RECURSIVE LoadTensors(_, _, _, _)
LoadTensors(tensors, names, i, numel) ==
    IF i > Len(names) THEN Ok(numel)
    ELSE LET t == get_tensor_f32(tensors, names[i])
         IN  IF ~IsOk(t) THEN t
             ELSE LoadTensors(tensors, names, i + 1,
                              [n \in DOMAIN numel \cup {names[i]} |->
                                  IF n = names[i] THEN t.val ELSE numel[n]])

\* LlamaWeights::from_gguf: output.weight falls back to token_embd on any
\* error.  seed stands for the numeric content of the tensor data.
WeightsFromGguf(file, config) ==
    LET first == LoadTensors(file.tensors, <<"token_embd.weight", "output_norm.weight">>,
                             1, <<>>)
        out == get_tensor_f32(file.tensors, "output.weight")
    IN  IF ~IsOk(first) THEN first
        ELSE IF out.tag = "panic" THEN out
        ELSE LET withOut == [n \in DOMAIN first.val \cup {"output.weight"} |->
                                IF n = "output.weight"
                                THEN (IF IsOk(out) THEN out.val
                                      ELSE first.val["token_embd.weight"])
                                ELSE first.val[n]]
                 all == LoadTensors(file.tensors, BlockTensors(0, config.n_layers),
                                    1, withOut)
             IN  IF ~IsOk(all) THEN all
                 ELSE Ok([numel |-> all.val, seed |-> file.seed])

\* KvCache::new: rows of kv_dim zeros, max_seq_len of them per layer.  A row
\* is one abstract value (0 for the zero row).
KvCacheNew(n_layers, n_kv_heads, head_dim, max_seq_len) ==
    [k |-> [l \in 0..(n_layers - 1) |-> [p \in 0..(max_seq_len - 1) |-> 0]],
     v |-> [l \in 0..(n_layers - 1) |-> [p \in 0..(max_seq_len - 1) |-> 0]],
     n_kv_heads |-> n_kv_heads, head_dim |-> head_dim,
     max_seq_len |-> max_seq_len, len |-> 0]

\* LlamaModel::from_gguf
ModelFromGguf(file) ==
    LET config == ConfigFromGguf(file.metadata)
    IN  IF ~IsOk(config) THEN config
        ELSE LET weights == WeightsFromGguf(file, config.val)
             IN  IF ~IsOk(weights) THEN weights
                 ELSE Ok([config |-> config.val, weights |-> weights.val,
                          cache |-> KvCacheNew(config.val.n_layers, config.val.n_kv_heads,
                                               config.val.head_dim, config.val.max_seq_len)])

\* KvCache::update: the slice k[layer][offset..offset + kv_dim] panics past
\* the buffer, before anything is written (an empty slice, kv_dim = 0, at
\* offset 0 never does).
UpdatePanics(cache, layer, pos) ==
    /\ cache.n_kv_heads * cache.head_dim > 0
    /\ pos >= cache.max_seq_len

\* A faulty update: len follows the last position written, even downwards.
KvUpdateLenPos(cache, layer, k_data, v_data, pos) ==
    [cache EXCEPT !.k[layer] = [@ EXCEPT ![pos] = k_data],
                  !.v[layer] = [@ EXCEPT ![pos] = v_data],
                  !.len = pos + 1]

\* A faulty update: the rows are written, len stays.
KvUpdateKeepLen(cache, layer, k_data, v_data, pos) ==
    [cache EXCEPT !.k[layer] = [@ EXCEPT ![pos] = k_data],
                  !.v[layer] = [@ EXCEPT ![pos] = v_data]]

\* A faulty update: the rows above pos are zeroed.
KvUpdateClearAbove(cache, layer, k_data, v_data, pos) ==
    [cache EXCEPT
        !.k[layer] = [p \in DOMAIN @ |-> IF p = pos THEN k_data ELSE IF p > pos THEN 0 ELSE @[p]],
        !.v[layer] = [p \in DOMAIN @ |-> IF p = pos THEN v_data ELSE IF p > pos THEN 0 ELSE @[p]],
        !.len = IF pos + 1 > @ THEN pos + 1 ELSE @]

KvUpdate(cache, layer, k_data, v_data, pos) ==
    LET stored == cache.n_kv_heads * cache.head_dim > 0
    IN  [cache EXCEPT
            !.k[layer] = IF stored THEN [@ EXCEPT ![pos] = k_data] ELSE @,
            !.v[layer] = IF stored THEN [@ EXCEPT ![pos] = v_data] ELSE @,
            !.len = IF pos + 1 > @ THEN pos + 1 ELSE @]

\* A faulty get: every row up to len, whatever seq_len is.
KvGetLen(cache, rows, seq_len) ==
    [s \in 1..(IF cache.len > seq_len THEN cache.len ELSE seq_len) |-> rows[s - 1]]

\* get_k / get_v: the rows of positions 0..seq_len-1 (empty rows when
\* kv_dim = 0).
KvGet(cache, rows, seq_len) ==
    [s \in 1..seq_len |-> IF cache.n_kv_heads * cache.head_dim > 0 THEN rows[s - 1] ELSE 0]

\* A faulty reset: len goes to 0, the rows stay.
KvResetLenOnly(cache) == [cache EXCEPT !.len = 0]

\* KvCache::reset
KvReset(cache) ==
    [cache EXCEPT !.k = [l \in DOMAIN cache.k |-> [p \in DOMAIN cache.k[l] |-> 0]],
                  !.v = [l \in DOMAIN cache.v |-> [p \in DOMAIN cache.v[l] |-> 0]],
                  !.len = 0]

\* ------------------------------------------------------------------------
\* Forward pass (llama/mod.rs).  Numeric values are residues: the zero
\* vector is 0, and each value is computed from the values the code
\* computes it from, so a seed of 0 (all-zero weights) gives zeros.
\* ------------------------------------------------------------------------
Val(x) == x % 7

\* token_embd[embd_offset..embd_offset + n_embd]
Embd(seed, token_id) == Val(seed * (token_id + 2))

\* wq / wk / wv @ rms_norm(hidden), then rope at cur_pos (the identity at 0)
Rope(x, cur_pos) == Val(x * (cur_pos + 1))

QProj(seed, layer, hidden, cur_pos) == Rope(Val(seed * (hidden + layer + 1)), cur_pos)

KProj(seed, layer, hidden, cur_pos) == Rope(Val(seed * (2 * hidden + layer + 1)), cur_pos)

VProj(seed, layer, hidden) == Val(seed * (3 * hidden + layer + 2))

\* softmax(q . K[s]) weighted sum of V[s] over the rows s of 0..seq_len-1
Attention(q, cached_k, cached_v) ==
    Val(SumSeq([s \in 1..Len(cached_k) |-> (q + cached_k[s] + s) * cached_v[s]]))

\* wo @ attn_output, and the SwiGLU block
OutProj(seed, attn) == Val(seed * attn)

Ffn(seed, hidden) == Val(seed * hidden * (hidden + 1))

\* output @ rms_norm(hidden): one logit per vocabulary index
LmHead(seed, hidden, n_vocab) ==
    [i \in 1..n_vocab |-> Val(seed * (hidden + i) * (hidden + 2 * i))]

\* The attention loop of one layer panics on h / heads_per_kv when
\* heads_per_kv = 0, and on cached_k[k_offset + d] when a query head maps to
\* a kv head that does not exist.
AttentionPanics(cfg) ==
    LET heads_per_kv == cfg.n_heads \div cfg.n_kv_heads
    IN  \/ heads_per_kv = 0
        \/ /\ cfg.head_dim > 0
           /\ (cfg.n_heads - 1) \div heads_per_kv >= cfg.n_kv_heads

\* Steps 2a-2j for the layers layer_idx.. of one token.  acc carries the
\* cache, the hidden state and the rows read and written so far.
RECURSIVE Layers(_, _, _, _)
Layers(m, acc, cur_pos, layer_idx) ==
    LET cfg == m.config
        numel == m.weights.numel
        seed == m.weights.seed
        q_dim == cfg.n_heads * cfg.head_dim
        kv_dim == cfg.n_kv_heads * cfg.head_dim
        seq_len == cur_pos + 1
        \* 2g-2j, once the attention output of the layer is there
        Rest(attended, attn) ==
            IF numel[Blk(layer_idx, "attn_output")] # cfg.n_embd * q_dim
            THEN [attended EXCEPT !.tag = "err", !.err = "wo matmul failed"]
            ELSE IF numel[Blk(layer_idx, "ffn_norm")] # cfg.n_embd
                 THEN [attended EXCEPT !.tag = "err", !.err = "ffn rms_norm failed"]
            ELSE IF numel[Blk(layer_idx, "ffn_gate")] # cfg.n_ff * cfg.n_embd
                 THEN [attended EXCEPT !.tag = "err", !.err = "gate matmul failed"]
            ELSE IF numel[Blk(layer_idx, "ffn_up")] # cfg.n_ff * cfg.n_embd
                 THEN [attended EXCEPT !.tag = "err", !.err = "up matmul failed"]
            ELSE IF numel[Blk(layer_idx, "ffn_down")] # cfg.n_embd * cfg.n_ff
                 THEN [attended EXCEPT !.tag = "err", !.err = "down matmul failed"]
            ELSE LET Next1(hidden1) ==
                         Layers(m, [attended EXCEPT !.hidden = Val(hidden1 + Ffn(seed, hidden1))],
                                cur_pos, layer_idx + 1)
                 IN  Next1(Val(acc.hidden + OutProj(seed, attn)))
        \* 2f, over the rows get_k and get_v return
        Attend(written, q, cached_k, cached_v) ==
            IF AttentionPanics(cfg) THEN [written EXCEPT !.tag = "panic"]
            ELSE Rest([written EXCEPT
                          !.reads = @ \cup {<<layer_idx, cur_pos, s - 1>> :
                                                s \in 1..Len(cached_k)}],
                      Attention(q, cached_k, cached_v))
        \* 2e, after cache.update
        Cached(cache, q) ==
            Attend([acc EXCEPT !.cache = cache, !.writes = @ \cup {<<layer_idx, cur_pos>>}],
                   q, KvGet(cache, cache.k[layer_idx], seq_len),
                   KvGet(cache, cache.v[layer_idx], seq_len))
    IN  IF layer_idx >= cfg.n_layers THEN [acc EXCEPT !.tag = "ok"]
        ELSE IF numel[Blk(layer_idx, "attn_norm")] # cfg.n_embd
             THEN [acc EXCEPT !.tag = "err", !.err = "rms_norm failed"]
        ELSE IF cfg.n_embd = 0
             THEN [acc EXCEPT !.tag = "panic"]
        ELSE IF numel[Blk(layer_idx, "attn_q")] # q_dim * cfg.n_embd
             THEN [acc EXCEPT !.tag = "err", !.err = "q matmul failed"]
        ELSE IF numel[Blk(layer_idx, "attn_k")] # kv_dim * cfg.n_embd
             THEN [acc EXCEPT !.tag = "err", !.err = "k matmul failed"]
        ELSE IF numel[Blk(layer_idx, "attn_v")] # kv_dim * cfg.n_embd
             THEN [acc EXCEPT !.tag = "err", !.err = "v matmul failed"]
        ELSE IF UpdatePanics(acc.cache, layer_idx, cur_pos)
             THEN [acc EXCEPT !.tag = "panic"]
        ELSE Cached(KvUpdate(acc.cache, layer_idx,
                             KProj(seed, layer_idx, acc.hidden, cur_pos),
                             VProj(seed, layer_idx, acc.hidden), cur_pos),
                    QProj(seed, layer_idx, acc.hidden, cur_pos))

\* The loop over the tokens t_idx.. of LlamaModel::forward.
RECURSIVE ForwardTokens(_, _, _, _, _)
ForwardTokens(m, acc, tokens, pos, t_idx) ==
    LET cfg == m.config
        token_id == tokens[t_idx + 1]
        cur_pos == pos + t_idx
        embd_offset == token_id * cfg.n_embd
        \* step 3, or the next token, once the layers are through
        After(done) ==
            IF done.tag # "ok" THEN done
            ELSE IF t_idx # Len(tokens) - 1
                 THEN ForwardTokens(m, done, tokens, pos, t_idx + 1)
            ELSE IF m.weights.numel["output_norm.weight"] # cfg.n_embd
                 THEN [done EXCEPT !.tag = "err", !.err = "output rms_norm failed"]
            ELSE IF m.weights.numel["output.weight"] # cfg.n_vocab * cfg.n_embd
                 THEN [done EXCEPT !.tag = "err", !.err = "logits matmul failed"]
            ELSE [done EXCEPT !.logits = LmHead(m.weights.seed, done.hidden, cfg.n_vocab)]
    IN  IF t_idx >= Len(tokens) THEN acc
        ELSE IF token_id >= cfg.n_vocab
             THEN [acc EXCEPT !.tag = "err", !.err = "token id exceeds vocab size"]
        ELSE IF embd_offset + cfg.n_embd > m.weights.numel["token_embd.weight"]
             THEN [acc EXCEPT !.tag = "panic"]
        ELSE After(Layers(m, [acc EXCEPT !.hidden = Embd(m.weights.seed, token_id)],
                          cur_pos, 0))

\* LlamaModel::forward(tokens, pos) on model m: tag is "ok" (with logits),
\* "err" or "panic"; cache is the cache the call leaves; writes holds the
\* <<layer, position>> rows it wrote and reads the <<layer, cur_pos, s>> for
\* every row s the attention of the token at cur_pos went over.
forward(m, tokens, pos) ==
    LET acc == [tag |-> "ok", err |-> "", cache |-> m.cache, hidden |-> 0,
                logits |-> <<>>, writes |-> {}, reads |-> {}]
    IN  IF m.config.n_kv_heads = 0 THEN [acc EXCEPT !.tag = "panic"]
        ELSE IF Len(tokens) = 0
             THEN [acc EXCEPT !.tag = "err", !.err = "no tokens to process"]
        ELSE ForwardTokens(m, acc, tokens, pos, 0)

\* ------------------------------------------------------------------------
\* Error text (ir-model/src/error.rs)
\* ------------------------------------------------------------------------
Display(e) ==
    IF e.kind = "Io" THEN "IO error"
    ELSE IF e.kind = "MissingKey" THEN "missing metadata key: " \o e.key
    ELSE IF e.kind = "TypeMismatch"
         THEN "type mismatch for key '" \o e.key \o "': expected " \o e.expected
                  \o ", got " \o e.got
    ELSE IF e.kind = "TensorNotFound" THEN "tensor not found: " \o e.name
    ELSE IF e.kind = "TokenizerError" THEN "tokenizer error: " \o e.msg
    ELSE IF e.kind = "InvalidMagic" THEN "invalid GGUF magic"
    ELSE IF e.kind = "UnsupportedGgufType" THEN "unsupported GGUF type ID"
    ELSE IF e.kind = "Other" THEN "invalid UTF-8 in string"
    ELSE e.kind

\* ------------------------------------------------------------------------
\* The session surface (ir-ffi)
\* ------------------------------------------------------------------------
None == [some |-> FALSE]
Some(v) == [some |-> TRUE, val |-> v]

NoError == "<null>"

\* A C string argument: a null pointer, or bytes that are valid UTF-8 or not.
NullStr == [null |-> TRUE, utf8 |-> FALSE, s |-> <<>>]
CStr(s) == [null |-> FALSE, utf8 |-> TRUE, s |-> s]
BadUtf8 == [null |-> FALSE, utf8 |-> FALSE, s |-> <<>>]

\* The same for a path argument, whose text is kept as a name.
NullPath == [null |-> TRUE, utf8 |-> FALSE, s |-> ""]
CPath(name) == [null |-> FALSE, utf8 |-> TRUE, s |-> name]
BadPath == [null |-> FALSE, utf8 |-> FALSE, s |-> ""]

\* What an entry point's closure does: it returns a status, having recorded
\* at most one error message, or it panics.  ctx is the context it leaves.
Ret(status, err, ctx) == [tag |-> "ret", status |-> status, err |-> err, ctx |-> ctx]

Unwind(ctx) == [tag |-> "panic", status |-> "Unwind", err |-> NoError, ctx |-> ctx]

\* No catch_unwind: the panic goes on to the caller.
NoCatch(r) == r

\* catch_panic: a panic becomes ErrorInternal with the message "internal panic".
catch_panic(r) ==
    IF r.tag = "panic"
    THEN [r EXCEPT !.tag = "ret", !.status = "ErrorInternal", !.err = "internal panic"]
    ELSE r

\* IRContext::new
ContextNew == [model |-> None, tokenizer |-> None]

\* GgufFile::open on the files of the disk.
GgufOpen(disk, name) ==
    IF name \notin DOMAIN disk THEN Err([kind |-> "Io"])
    ELSE IF disk[name].parse # "ok" THEN Err([kind |-> disk[name].parse])
    ELSE Ok(disk[name])

\* A faulty ir_model_load: the tokenizer is stored as soon as it is built,
\* before the model is.
ModelLoadTokenizerFirst(disk, ctx, model_path) ==
    IF model_path.null THEN Ret("ErrorInvalidArgument", "null argument", ctx)
    ELSE IF ~model_path.utf8 THEN Ret("ErrorInvalidArgument", "invalid path", ctx)
    ELSE LET gguf == GgufOpen(disk, model_path.s)
         IN  IF ~IsOk(gguf)
             THEN Ret("ErrorModelLoad", "failed to open GGUF: " \o Display(gguf.err), ctx)
             ELSE LET tokenizer == BpeFromGguf(gguf.val.metadata)
                  IN  IF ~IsOk(tokenizer)
                      THEN Ret("ErrorModelLoad",
                               "failed to load tokenizer: " \o Display(tokenizer.err), ctx)
                      ELSE LET model == ModelFromGguf(gguf.val)
                               stored == [ctx EXCEPT !.tokenizer = Some(tokenizer.val)]
                           IN  IF model.tag = "panic" THEN Unwind(stored)
                               ELSE IF ~IsOk(model)
                               THEN Ret("ErrorModelLoad",
                                        "failed to load model: " \o Display(model.err),
                                        stored)
                               ELSE Ret("Ok", NoError,
                                        [model |-> Some(model.val),
                                         tokenizer |-> Some(tokenizer.val)])

\* The closure of ir_model_load, for a non-null ctx.
ModelLoadBody(disk, ctx, model_path) ==
    IF model_path.null THEN Ret("ErrorInvalidArgument", "null argument", ctx)
    ELSE IF ~model_path.utf8 THEN Ret("ErrorInvalidArgument", "invalid path", ctx)
    ELSE LET gguf == GgufOpen(disk, model_path.s)
         IN  IF ~IsOk(gguf)
             THEN Ret("ErrorModelLoad", "failed to open GGUF: " \o Display(gguf.err), ctx)
             ELSE LET tokenizer == BpeFromGguf(gguf.val.metadata)
                  IN  IF ~IsOk(tokenizer)
                      THEN Ret("ErrorModelLoad",
                               "failed to load tokenizer: " \o Display(tokenizer.err), ctx)
                      ELSE LET model == ModelFromGguf(gguf.val)
                           IN  IF model.tag = "panic" THEN Unwind(ctx)
                               ELSE IF ~IsOk(model)
                               THEN Ret("ErrorModelLoad",
                                        "failed to load model: " \o Display(model.err), ctx)
                               ELSE Ret("Ok", NoError,
                                        [model |-> Some(model.val),
                                         tokenizer |-> Some(tokenizer.val)])

\* What the generation loops record, in order: every model.forward call,
\* every chain.sample result and every invocation of the host callback.
ForwardEvent(fx, tokens, pos, len_before) ==
    [ev |-> "forward", tokens |-> tokens, pos |-> pos, tag |-> fx.tag,
     len_before |-> len_before, len_after |-> fx.cache.len,
     writes |-> fx.writes, reads |-> fx.reads, logits |-> fx.logits]

SampleEvent(token) == [ev |-> "sample", token |-> token]

CallbackEvent(token, text, ret) ==
    [ev |-> "callback", token |-> token, text |-> text, ret |-> ret]

\* The outcome of a generation: how the closure ends, the cache it leaves,
\* the output string it stores (ir_generate) and the events above.
Run(tag, status, err, cache, output, events) ==
    [tag |-> tag, status |-> status, err |-> err, cache |-> cache,
     output |-> output, events |-> events]

\* A faulty end-of-sequence test: never true.
NeverEos(tk, token) == FALSE

\* next_token == tokenizer.vocab.eos_id
IsEos(tk, token) == token = tk.vocab.eos_id

\* tokenizer.decode(&generated), CString::new(text), *output = c.into_raw()
GenerateFinish(tk, cache, generated, events) ==
    LET c == CStringNew(decode(tk, generated))
    IN  IF IsOk(c) THEN Run("ret", "Ok", NoError, cache, Some(c.val), events)
        ELSE Run("ret", "ErrorGenerate", "output encoding error", cache, None, events)

\* The decode loop of ir_generate, from iteration i of 1..max_tokens.
RECURSIVE GenerateLoop(_, _, _, _, _, _, _, _)
GenerateLoop(m, tk, params, i, next_token, cur_pos, generated, events) ==
    LET Sampled(fx, ev1, tok) ==
            IF IsEos(tk, tok)
            THEN GenerateFinish(tk, fx.cache, generated, Append(ev1, SampleEvent(tok)))
            ELSE GenerateLoop([m EXCEPT !.cache = fx.cache], tk, params, i + 1, tok,
                              cur_pos + 1, Append(generated, tok),
                              Append(ev1, SampleEvent(tok)))
        Forwarded(fx, ev1) ==
            IF fx.tag = "panic" THEN Run("panic", "Unwind", NoError, fx.cache, None, ev1)
            ELSE IF fx.tag = "err"
                 THEN Run("ret", "ErrorGenerate", "forward pass failed: " \o fx.err,
                          fx.cache, None, ev1)
            ELSE Sampled(fx, ev1, GenerateChain(params, fx.logits))
        Step(fx) ==
            Forwarded(fx, Append(events, ForwardEvent(fx, <<next_token>>, cur_pos,
                                                      m.cache.len)))
    IN  IF i >= params.max_tokens THEN GenerateFinish(tk, m.cache, generated, events)
        ELSE Step(forward(m, <<next_token>>, cur_pos))

\* ir_generate once the model and the tokenizer are there: encode, prefill
\* at position 0, first sample, then the decode loop.
GenerateRun(m, tk, prompt_str, params) ==
    LET Sampled(tokens, fx, ev1, next_token) ==
            IF IsEos(tk, next_token)
            THEN GenerateFinish(tk, fx.cache, <<>>, Append(ev1, SampleEvent(next_token)))
            ELSE GenerateLoop([m EXCEPT !.cache = fx.cache], tk, params, 1, next_token,
                              Len(tokens), <<next_token>>,
                              Append(ev1, SampleEvent(next_token)))
        Forwarded(tokens, fx, ev1) ==
            IF fx.tag = "panic" THEN Run("panic", "Unwind", NoError, fx.cache, None, ev1)
            ELSE IF fx.tag = "err"
                 THEN Run("ret", "ErrorGenerate", "forward pass failed: " \o fx.err,
                          fx.cache, None, ev1)
            ELSE Sampled(tokens, fx, ev1, GenerateChain(params, fx.logits))
        Prefill(tokens, fx) ==
            Forwarded(tokens, fx, <<ForwardEvent(fx, tokens, 0, m.cache.len)>>)
        Encoded(tokens) == Prefill(tokens, forward(m, tokens, 0))
    IN  Encoded(encode(tk, prompt_str))

\* The host callback: a null function pointer, or a function that returns
\* false on its stop_at-th invocation and true on the others (0: never).
NoCallback == [null |-> TRUE, stop_at |-> 0]
Callback(stop_at) == [null |-> FALSE, stop_at |-> stop_at]

\* A faulty invoke_callback: the callback's return value is dropped.
InvokeAndContinue(callback, calls, token_text) ==
    IF callback.null \/ 0 \in Range(token_text)
    THEN [invoked |-> FALSE, ret |-> TRUE, cont |-> TRUE]
    ELSE [invoked |-> TRUE, ret |-> (calls + 1 # callback.stop_at), cont |-> TRUE]

\* A faulty invoke_callback: the text is handed over without the CString
\* conversion, NUL bytes included.
InvokeUnconverted(callback, calls, token_text) ==
    IF callback.null THEN [invoked |-> FALSE, ret |-> TRUE, cont |-> TRUE]
    ELSE LET ret == (calls + 1 # callback.stop_at)
         IN  [invoked |-> TRUE, ret |-> ret, cont |-> ret]

\* streaming::invoke_callback: calls is the number of invocations so far.
\* invoked: the callback ran; ret: what it returned; cont: what
\* invoke_callback returns.
invoke_callback(callback, calls, token_text) ==
    IF callback.null THEN [invoked |-> FALSE, ret |-> TRUE, cont |-> TRUE]
    ELSE IF ~IsOk(CStringNew(token_text))
         THEN [invoked |-> FALSE, ret |-> TRUE, cont |-> TRUE]
    ELSE LET ret == (calls + 1 # callback.stop_at)
         IN  [invoked |-> TRUE, ret |-> ret, cont |-> ret]

Invocations(events) == Cardinality({i \in 1..Len(events) : events[i].ev = "callback"})

Deliver(tk, callback, events, token) ==
    LET Sent(text, cb) ==
            [cont |-> cb.cont,
             events |-> IF cb.invoked
                        THEN Append(events, CallbackEvent(token, text, cb.ret))
                        ELSE events]
        Decoded(text) == Sent(text, invoke_callback(callback, Invocations(events), text))
    IN  Decoded(decode(tk, <<token>>))

\* The decode loop of ir_generate_streaming, from iteration i.
RECURSIVE StreamingLoop(_, _, _, _, _, _, _, _)
StreamingLoop(m, tk, params, callback, i, next_token, cur_pos, events) ==
    LET Delivered(fx, tok, sent) ==
            IF ~sent.cont THEN Run("ret", "Ok", NoError, fx.cache, None, sent.events)
            ELSE StreamingLoop([m EXCEPT !.cache = fx.cache], tk, params, callback, i + 1,
                               tok, cur_pos + 1, sent.events)
        Sampled(fx, ev2, tok) ==
            IF IsEos(tk, tok) THEN Run("ret", "Ok", NoError, fx.cache, None, ev2)
            ELSE Delivered(fx, tok, Deliver(tk, callback, ev2, tok))
        Chained(fx, ev1, tok) == Sampled(fx, Append(ev1, SampleEvent(tok)), tok)
        Forwarded(fx, ev1) ==
            IF fx.tag = "panic" THEN Run("panic", "Unwind", NoError, fx.cache, None, ev1)
            ELSE IF fx.tag = "err"
                 THEN Run("ret", "ErrorGenerate", "forward pass failed: " \o fx.err,
                          fx.cache, None, ev1)
            ELSE Chained(fx, ev1, StreamingChain(params, fx.logits))
        Step(fx) ==
            Forwarded(fx, Append(events, ForwardEvent(fx, <<next_token>>, cur_pos,
                                                      m.cache.len)))
    IN  IF i >= params.max_tokens THEN Run("ret", "Ok", NoError, m.cache, None, events)
        ELSE Step(forward(m, <<next_token>>, cur_pos))

\* ir_generate_streaming once the model and the tokenizer are there.
StreamingRun(m, tk, prompt_str, params, callback) ==
    LET Delivered(tokens, fx, next_token, sent) ==
            IF ~sent.cont THEN Run("ret", "Ok", NoError, fx.cache, None, sent.events)
            ELSE StreamingLoop([m EXCEPT !.cache = fx.cache], tk, params, callback, 1,
                               next_token, Len(tokens), sent.events)
        Sampled(tokens, fx, ev2, next_token) ==
            IF IsEos(tk, next_token)
            THEN Run("ret", "Ok", NoError, fx.cache, None, ev2)
            ELSE Delivered(tokens, fx, next_token, Deliver(tk, callback, ev2, next_token))
        Chained(tokens, fx, ev1, next_token) ==
            Sampled(tokens, fx, Append(ev1, SampleEvent(next_token)), next_token)
        Forwarded(tokens, fx, ev1) ==
            IF fx.tag = "panic" THEN Run("panic", "Unwind", NoError, fx.cache, None, ev1)
            ELSE IF fx.tag = "err"
                 THEN Run("ret", "ErrorGenerate", "forward pass failed: " \o fx.err,
                          fx.cache, None, ev1)
            ELSE Chained(tokens, fx, ev1, StreamingChain(params, fx.logits))
        Prefill(tokens, fx) ==
            Forwarded(tokens, fx, <<ForwardEvent(fx, tokens, 0, m.cache.len)>>)
        Encoded(tokens) == Prefill(tokens, forward(m, tokens, 0))
    IN  Encoded(encode(tk, prompt_str))

\* The closures of ir_generate and ir_generate_streaming for a non-null ctx:
\* the entry point's result and, when the generation started, its run.
WithRun(r, run) == [tag |-> r.tag, status |-> r.status, err |-> r.err, ctx |-> r.ctx,
                    run |-> run]

RunResult(ctx, run) ==
    LET after == [ctx EXCEPT !.model = Some([ctx.model.val EXCEPT !.cache = run.cache])]
    IN  WithRun(IF run.tag = "panic" THEN Unwind(after)
                ELSE Ret(run.status, run.err, after), Some(run))

GenerateBody(ctx, prompt, params, output_null) ==
    IF prompt.null \/ output_null
    THEN WithRun(Ret("ErrorInvalidArgument", "null argument", ctx), None)
    ELSE IF ~prompt.utf8
         THEN WithRun(Ret("ErrorInvalidArgument", "invalid prompt", ctx), None)
    ELSE IF ~(ctx.model.some /\ ctx.tokenizer.some)
         THEN WithRun(Ret("ErrorGenerate", "model not loaded", ctx), None)
    ELSE RunResult(ctx, GenerateRun(ctx.model.val, ctx.tokenizer.val, prompt.s, params))

StreamingBody(ctx, prompt, params, callback) ==
    IF prompt.null
    THEN WithRun(Ret("ErrorInvalidArgument", "null argument", ctx), None)
    ELSE IF ~prompt.utf8
         THEN WithRun(Ret("ErrorInvalidArgument", "invalid prompt", ctx), None)
    ELSE IF ~(ctx.model.some /\ ctx.tokenizer.some)
         THEN WithRun(Ret("ErrorGenerate", "model not loaded", ctx), None)
    ELSE RunResult(ctx, StreamingRun(ctx.model.val, ctx.tokenizer.val, prompt.s, params,
                                     callback))

\* ------------------------------------------------------------------------
\* The model files on disk.  A file is [parse, metadata, tensors, seed]:
\* parse is "ok" or the error kind GgufFile::open ends with; tensors maps a
\* tensor name to [numel, short] (short: the file ends before the tensor's
\* data does); seed stands for the tensor data.
\* ------------------------------------------------------------------------
U32(v) == [kind |-> "U32", val |-> v]
F32(v) == [kind |-> "F32", val |-> v]
Str(v) == [kind |-> "String", val |-> v]
StrArray(ss) == [kind |-> "Array", val |-> [i \in 1..Len(ss) |-> Str(ss[i])]]
F32Array(n) == [kind |-> "Array", val |-> [i \in 1..n |-> F32(0)]]

\* "<pad>", "<bos>", "<eos>", "a", "b", "c", "ab", "ba"
FixtureTokens ==
    << <<60, 112, 97, 100, 62>>, <<60, 98, 111, 115, 62>>, <<60, 101, 111, 115, 62>>,
       <<97>>, <<98>>, <<99>>, <<97, 98>>, <<98, 97>> >>

\* "<0x00>", "<eos>", "a", "b"
ByteTokens ==
    << <<60, 48, 120, 48, 48, 62>>, <<60, 101, 111, 115, 62>>, <<97>>, <<98>> >>

\* "a b"
FixtureMerges == << <<97, 32, 98>> >>

\* The fixture's hyperparameters: n_embd 4, n_heads 2, n_kv_heads 1,
\* n_layers 2, n_ff 8.
Metadata(tokens, merges, eos_id, max_seq_len) ==
    ("llama.embedding_length" :> U32(4))
    @@ ("llama.attention.head_count" :> U32(2))
    @@ ("llama.attention.head_count_kv" :> U32(1))
    @@ ("llama.block_count" :> U32(2))
    @@ ("llama.feed_forward_length" :> U32(8))
    @@ ("llama.attention.layer_norm_rms_epsilon" :> F32(0))
    @@ ("llama.context_length" :> U32(max_seq_len))
    @@ ("llama.rope.freq_base" :> F32(10000))
    @@ ("tokenizer.ggml.tokens" :> StrArray(tokens))
    @@ ("tokenizer.ggml.scores" :> F32Array(Len(tokens)))
    @@ ("tokenizer.ggml.bos_token_id" :> U32(1))
    @@ ("tokenizer.ggml.eos_token_id" :> U32(eos_id))
    @@ ("tokenizer.ggml.merges" :> StrArray(merges))

Tensor(numel) == [numel |-> numel, short |-> FALSE]

LayerTensorsOf(i) ==
    (Blk(i, "attn_norm") :> Tensor(4)) @@ (Blk(i, "attn_q") :> Tensor(16))
    @@ (Blk(i, "attn_k") :> Tensor(8)) @@ (Blk(i, "attn_v") :> Tensor(8))
    @@ (Blk(i, "attn_output") :> Tensor(16)) @@ (Blk(i, "ffn_norm") :> Tensor(4))
    @@ (Blk(i, "ffn_gate") :> Tensor(32)) @@ (Blk(i, "ffn_up") :> Tensor(32))
    @@ (Blk(i, "ffn_down") :> Tensor(32))

\* Tied embeddings: no output.weight.
Tensors(n_vocab) ==
    ("token_embd.weight" :> Tensor(4 * n_vocab)) @@ ("output_norm.weight" :> Tensor(4))
    @@ LayerTensorsOf(0) @@ LayerTensorsOf(1)

Without(f, key) == [k \in DOMAIN f \ {key} |-> f[k]]

File(tokens, eos_id, max_seq_len, seed) ==
    [parse |-> "ok", metadata |-> Metadata(tokens, FixtureMerges, eos_id, max_seq_len),
     tensors |-> Tensors(Len(tokens)), seed |-> seed]

Fixture == File(FixtureTokens, 2, 16, 0)

\* A file with n_embd 1 and n_heads 2, so head_dim = 1 / 2 = 0 and the q, k
\* and v projections have no element; max_seq_len 2.
FlatLayerTensorsOf(i) ==
    (Blk(i, "attn_norm") :> Tensor(1)) @@ (Blk(i, "attn_q") :> Tensor(0))
    @@ (Blk(i, "attn_k") :> Tensor(0)) @@ (Blk(i, "attn_v") :> Tensor(0))
    @@ (Blk(i, "attn_output") :> Tensor(0)) @@ (Blk(i, "ffn_norm") :> Tensor(1))
    @@ (Blk(i, "ffn_gate") :> Tensor(8)) @@ (Blk(i, "ffn_up") :> Tensor(8))
    @@ (Blk(i, "ffn_down") :> Tensor(8))

FlatFile ==
    [parse |-> "ok",
     metadata |-> ("llama.embedding_length" :> U32(1))
                      @@ Metadata(FixtureTokens, FixtureMerges, 2, 2),
     tensors |-> ("token_embd.weight" :> Tensor(Len(FixtureTokens)))
                     @@ ("output_norm.weight" :> Tensor(1))
                     @@ FlatLayerTensorsOf(0) @@ FlatLayerTensorsOf(1),
     seed |-> 3]

Disk ==
    ("fixture.gguf" :> Fixture)
    @@ ("tiny.gguf" :> File(FixtureTokens, 2, 3, 5))
    @@ ("bytes.gguf" :> File(ByteTokens, 1, 4, 2))
    @@ ("garbage.gguf" :> [Fixture EXCEPT !.parse = "InvalidMagic"])
    @@ ("truncated.gguf" :> [Fixture EXCEPT !.parse = "Io"])
    @@ ("badtype.gguf" :> [Fixture EXCEPT !.parse = "UnsupportedGgufType"])
    @@ ("badutf8.gguf" :> [Fixture EXCEPT !.parse = "Other"])
    @@ ("badmerge.gguf" :>
            [Fixture EXCEPT !.metadata["tokenizer.ggml.merges"] = StrArray(<< <<97, 98>> >>)])
    @@ ("noheads.gguf" :>
            [Fixture EXCEPT !.metadata["llama.attention.head_count"] = U32(0)])
    @@ ("nokv.gguf" :>
            [Fixture EXCEPT !.metadata["llama.attention.head_count_kv"] = U32(0)])
    @@ ("notensor.gguf" :>
            [Fixture EXCEPT !.tensors = Without(@, Blk(1, "ffn_down"))])
    @@ ("short.gguf" :>
            [Fixture EXCEPT !.tensors[Blk(1, "ffn_down")].short = TRUE])
    @@ ("badnorm.gguf" :>
            [Fixture EXCEPT !.tensors[Blk(0, "attn_norm")].numel = 2])
    @@ ("flat.gguf" :> FlatFile)

\* ------------------------------------------------------------------------
\* The state: the contexts behind the handles, the thread-local error slot
\* of every thread, and a record of the last call made.
\* ------------------------------------------------------------------------
VARIABLES
    ctxs,        \* handle -> None (not allocated) or Some(IRContext)
    LAST_ERROR,  \* thread -> NoError or the stored message
    last,        \* the last entry-point call: its arguments, status and run
    alone,       \* handle -> the context the session has when its calls run alone
    work         \* a library object used directly, and the last call made on it

vars == <<ctxs, LAST_ERROR, last, alone, work>>

\* No library object in use.
NoWork == [op |-> "none"]

MaxTokens == 2

Handles == {1, 2}
Threads == {1, 2}
NullHandle == 0

\* A faulty set_last_error: one slot shared by every thread.
SetEverySlot(slots, t, msg) == [u \in DOMAIN slots |-> msg]

\* set_last_error / take_last_error on the slot of thread t
set_last_error(slots, t, msg) == [slots EXCEPT ![t] = msg]

take_last_error(slots, t) == [slots EXCEPT ![t] = NoError]

Call(op, t, h, path, r, max_tokens, callback) ==
    [op |-> op, thread |-> t, ctx |-> h, path |-> path, status |-> r.status, err |-> r.err,
     fault |-> r.tag = "panic", run |-> r.run, max_tokens |-> max_tokens,
     callback |-> callback, returned |-> NoError, len_before |-> 0,
     solo |-> [status |-> r.status, run |-> r.run]]

\* The context behind handle h; a null handle has none.
At(cs, h) == IF h = NullHandle THEN None ELSE cs[h]

\* A faulty store: the entry point writes through every live handle.
StoreEveryCtx(cs, h, ctx) == [x \in DOMAIN cs |-> IF cs[x].some \/ x = h THEN Some(ctx) ELSE cs[x]]

\* The writes an entry point makes through its own `&mut *ctx`
StoreCtx(cs, h, ctx) == [cs EXCEPT ![h] = Some(ctx)]

\* cache.len of the model of session h, 0 when there is none
CacheLen(cs, h) ==
    IF h # NullHandle /\ cs[h].some /\ cs[h].val.model.some
    THEN cs[h].val.model.val.cache.len ELSE 0

NoRunOf(r) == [tag |-> r.tag, status |-> r.status, err |-> r.err, ctx |-> r.ctx,
               run |-> None]

\* What every entry point leaves behind: body is what its closure did (a
\* panic included), r what the caller gets, solo what the caller gets from
\* the same call when the session's calls run alone.
Finish(op, t, h, path, body, r, solo, max_tokens, callback) ==
    /\ ctxs' = IF h = NullHandle THEN ctxs ELSE StoreCtx(ctxs, h, r.ctx)
    /\ alone' = IF h = NullHandle THEN alone ELSE [alone EXCEPT ![h] = Some(solo.ctx)]
    /\ LAST_ERROR' = IF r.err # NoError THEN set_last_error(LAST_ERROR, t, r.err)
                     ELSE LAST_ERROR
    /\ UNCHANGED work
    /\ last' = [Call(op, t, h, path, r, max_tokens, callback) EXCEPT
                    !.fault = body.tag = "panic", !.len_before = CacheLen(ctxs, h),
                    !.solo = [status |-> solo.status, run |-> solo.run]]

\* An entry point whose body runs inside catch_panic(|| ...)
Caught(op, t, h, path, body, solo, max_tokens, callback) ==
    Finish(op, t, h, path, body, catch_panic(body), catch_panic(solo), max_tokens, callback)

\* An entry point without catch_panic
Uncaught(op, t, h, body, solo) ==
    Finish(op, t, h, NullPath, body, body, solo, 0, NoCallback)

NoSessions ==
    /\ ctxs = [h \in Handles |-> None]
    /\ LAST_ERROR = [t \in Threads |-> NoError]
    /\ alone = [h \in Handles |-> None]
    /\ last = [op |-> "none", thread |-> 0, ctx |-> NullHandle, path |-> NullPath,
               status |-> "Ok", err |-> NoError, fault |-> FALSE, run |-> None, max_tokens |-> 0,
               callback |-> NoCallback, returned |-> NoError, len_before |-> 0,
               solo |-> [status |-> "Ok", run |-> None]]

Init == NoSessions /\ work = NoWork

\* ir_context_create(backend, ctx_out): ctx_out null, or a new context at a
\* free handle.
ContextCreateNull(t) ==
    LET Body == NoRunOf(Ret("ErrorInvalidArgument", "ctx_out is null", ContextNew))
    IN  Caught("ir_context_create", t, NullHandle, NullPath, Body, Body, 0, NoCallback)

ContextCreate(t, h) ==
    LET Body == NoRunOf(Ret("Ok", NoError, ContextNew))
    IN  /\ ~ctxs[h].some
        /\ Caught("ir_context_create", t, h, NullPath, Body, Body, 0, NoCallback)

\* ir_context_destroy(ctx): no catch_panic; null is a no-op.
ContextDestroy(t, h) ==
    /\ h # NullHandle => ctxs[h].some
    /\ ctxs' = IF h = NullHandle THEN ctxs ELSE [ctxs EXCEPT ![h] = None]
    /\ alone' = IF h = NullHandle THEN alone ELSE [alone EXCEPT ![h] = None]
    /\ last' = [op |-> "ir_context_destroy", thread |-> t, ctx |-> h, path |-> NullPath,
                status |-> "Ok", err |-> NoError, fault |-> FALSE, run |-> None, max_tokens |-> 0,
                callback |-> NoCallback, returned |-> NoError, len_before |-> 0,
                solo |-> [status |-> "Ok", run |-> None]]
    /\ UNCHANGED <<LAST_ERROR, work>>

\* ir_model_load(ctx, model_path)
ModelLoad(t, h, model_path) ==
    LET Body(c) ==
            IF h = NullHandle
            THEN NoRunOf(Ret("ErrorInvalidArgument", "null argument", ContextNew))
            ELSE NoRunOf(ModelLoadBody(Disk, c.val, model_path))
    IN  /\ h # NullHandle => ctxs[h].some
        /\ Caught("ir_model_load", t, h, model_path, Body(At(ctxs, h)), Body(At(alone, h)),
                  0, NoCallback)

\* ir_generate(ctx, prompt, params, output)
Generate(t, h, prompt, params, output_null) ==
    LET Body(c) ==
            IF h = NullHandle
            THEN NoRunOf(Ret("ErrorInvalidArgument", "null argument", ContextNew))
            ELSE GenerateBody(c.val, prompt, params, output_null)
    IN  /\ h # NullHandle => ctxs[h].some
        /\ Caught("ir_generate", t, h, NullPath, Body(At(ctxs, h)), Body(At(alone, h)),
                  params.max_tokens, NoCallback)

\* ir_generate_streaming(ctx, prompt, params, callback, user_data)
GenerateStreaming(t, h, prompt, params, callback) ==
    LET Body(c) ==
            IF h = NullHandle
            THEN NoRunOf(Ret("ErrorInvalidArgument", "null argument", ContextNew))
            ELSE StreamingBody(c.val, prompt, params, callback)
    IN  /\ h # NullHandle => ctxs[h].some
        /\ Caught("ir_generate_streaming", t, h, NullPath, Body(At(ctxs, h)),
                  Body(At(alone, h)), params.max_tokens, callback)

\* ir_reset(ctx): no catch_panic, and no message for a null ctx.
ResetBody(ctx) ==
    IF ctx.model.some
    THEN Ret("Ok", NoError, [ctx EXCEPT !.model = Some([@.val EXCEPT !.cache = KvReset(@)])])
    ELSE Ret("Ok", NoError, ctx)

Reset(t, h) ==
    LET Body(c) ==
            IF h = NullHandle
            THEN NoRunOf(Ret("ErrorInvalidArgument", NoError, ContextNew))
            ELSE NoRunOf(ResetBody(c.val))
    IN  /\ h # NullHandle => ctxs[h].some
        /\ Uncaught("ir_reset", t, h, Body(At(ctxs, h)), Body(At(alone, h)))

\* ir_last_error(): returns the slot of the calling thread and empties it.
LastError(t) ==
    /\ LAST_ERROR' = take_last_error(LAST_ERROR, t)
    /\ last' = [op |-> "ir_last_error", thread |-> t, ctx |-> NullHandle, path |-> NullPath,
                status |-> "Ok", err |-> NoError, fault |-> FALSE, run |-> None, max_tokens |-> 0,
                callback |-> NoCallback, returned |-> LAST_ERROR[t], len_before |-> 0,
                solo |-> [status |-> "Ok", run |-> None]]
    /\ UNCHANGED <<ctxs, alone, work>>

\* ------------------------------------------------------------------------
\* The host: the arguments it passes.
\* ------------------------------------------------------------------------
\* "a", "ba", "aaa"
Texts == {<<97>>, <<98, 97>>, <<97, 97, 97>>}

Params(max_tokens, top_k) ==
    [max_tokens |-> max_tokens, temperature |-> Rat(1, 1), top_k |-> top_k,
     top_p |-> Rat(1, 1), repetition_penalty |-> Rat(1, 1)]

ParamsSet == {Params(n, 0) : n \in 0..MaxTokens}

Callbacks == {NoCallback, Callback(0), Callback(1), Callback(2)}

Paths == {CPath("tiny.gguf"), CPath("bytes.gguf"), CPath("noheads.gguf")}

\* The calls of ir_generate and ir_generate_streaming on session h: every
\* text with every max_tokens, and every callback with the largest.
GenerateCalls(h) ==
    {[ctx |-> h, prompt |-> CStr(s), params |-> ps, output_null |-> FALSE] :
         s \in Texts, ps \in ParamsSet}

StreamingCalls(h) ==
    {[ctx |-> h, prompt |-> CStr(s), params |-> x[1], callback |-> x[2]] :
         s \in Texts,
         x \in {y \in ParamsSet \X Callbacks :
                    y[2] = Callback(0) \/ y[1].max_tokens = MaxTokens}}

\* One host thread driving one session through loads, generations and resets.
Next ==
    \/ ContextCreate(1, 1)
    \/ \E path \in Paths : ModelLoad(1, 1, path)
    \/ \E c \in GenerateCalls(1) : Generate(1, c.ctx, c.prompt, c.params, c.output_null)
    \/ \E c \in StreamingCalls(1) :
           GenerateStreaming(1, c.ctx, c.prompt, c.params, c.callback)
    \/ Reset(1, 1)
    \/ LastError(1)

Spec == Init /\ [][Next]_vars

\* Two host threads and two sessions, with the calls that fail on their
\* arguments among the ones they make.
BadPaths == {NullPath, CPath("missing.gguf"), CPath("tiny.gguf")}

BadPrompts == {NullStr, CStr(<<97>>)}

NextErrors ==
    \E t \in Threads :
        \/ ContextCreateNull(t)
        \/ \E h \in Handles : ContextCreate(t, h)
        \/ \E h \in Handles \cup {NullHandle} : ContextDestroy(t, h)
        \/ \E h \in Handles, path \in BadPaths : ModelLoad(t, h, path)
        \/ \E h \in Handles, prompt \in BadPrompts :
               Generate(t, h, prompt, Params(1, 0), FALSE)
        \/ \E h \in Handles : GenerateStreaming(t, h, NullStr, Params(1, 0), Callback(0))
        \/ \E h \in Handles \cup {NullHandle} : Reset(t, h)
        \/ LastError(t)

SpecErrors == Init /\ [][NextErrors]_vars

\* Two sessions, each driven by a host thread of its own, their calls
\* interleaved in every order.
SessionTexts == {<<97>>, <<98, 97>>}

SessionPaths == {CPath("tiny.gguf"), CPath("bytes.gguf")}

NextSessions ==
    \E h \in Handles :
        \/ ContextCreate(h, h)
        \/ \E path \in SessionPaths : ModelLoad(h, h, path)
        \/ \E s \in SessionTexts : Generate(h, h, CStr(s), Params(MaxTokens, 0), FALSE)
        \/ GenerateStreaming(h, h, CStr(<<97>>), Params(MaxTokens, 0), Callback(1))
        \/ Reset(h, h)

SpecSessions == Init /\ [][NextSessions]_vars

\* One session loading every file of the disk, a missing one and a path
\* that is not UTF-8, from either host thread.
LoadPaths == {CPath(name) : name \in DOMAIN Disk \cup {"missing.gguf"}} \cup {BadPath}

NextLoad ==
    \E t \in Threads :
        \/ ContextCreate(t, 1)
        \/ ContextDestroy(t, 1)
        \/ \E path \in LoadPaths : ModelLoad(t, 1, path)
        \/ Reset(t, 1)
        \/ LastError(t)

SpecLoad == Init /\ [][NextLoad]_vars

\* ------------------------------------------------------------------------
\* The sampler chain used directly: SamplerChain::sample with every prefix
\* of up to two transforms before Greedy, and TopK and TopP applied to
\* working vectors.
\* ------------------------------------------------------------------------
MaxLogits == 3

LogitValues == {-2, 0, 1, 3}

LogitVectors == UNION {[1..n -> LogitValues] : n \in 0..MaxLogits}

Transforms ==
    {RepetitionPenalty(Rat(2, 1), <<0>>), RepetitionPenalty(Rat(1, 2), <<1, 2>>),
     Temperature(Rat(1, 2)), Temperature(Rat(0, 1)),
     TopK(0), TopK(1), TopK(2),
     TopP(Rat(0, 1)), TopP(Rat(1, 2)), TopP(Rat(1, 1))}

\* Every chain of up to two transforms; a logit divided by 1e-7 twice is
\* beyond the integers of this model.
Prefixes ==
    {<<>>} \cup {<<a>> : a \in Transforms}
    \cup {<<x[1], x[2]>> : x \in {y \in Transforms \X Transforms :
                                      ~(y[1] = y[2] /\ y[1] = Temperature(Rat(0, 1)))}}

\* Working vectors: in token order, and in the opposite order.
WorkingVectors ==
    {ToTokenLogits(l) : l \in LogitVectors} \cup {Reverse(ToTokenLogits(l)) : l \in LogitVectors}

Ks == 0..(MaxLogits + 1)

Ps == {Rat(0, 1), Rat(1, 4), Rat(1, 2), Rat(3, 4), Rat(1, 1), Rat(2, 1)}

\* The calls to make: a chain to sample with, or a vector to cut.
SamplerInputs ==
    {[op |-> "sample", done |-> FALSE, prefix |-> prefix, logits |-> logits,
      survivors |-> <<>>, token |-> 0] : prefix \in Prefixes, logits \in LogitVectors}
    \cup {[op |-> "top_k", done |-> FALSE, k |-> k, L |-> L, out |-> <<>>] :
              k \in Ks, L \in WorkingVectors}
    \cup {[op |-> "top_p", done |-> FALSE, p |-> p, L |-> L, out |-> <<>>] :
              p \in Ps, L \in WorkingVectors}

InitSampler == NoSessions /\ work \in SamplerInputs

SampleCall ==
    /\ work.op = "sample" /\ ~work.done
    /\ work' = [work EXCEPT
                    !.done = TRUE,
                    !.survivors = ApplyAll(work.prefix, 1, ToTokenLogits(work.logits)),
                    !.token = sample(Append(work.prefix, Greedy), work.logits)]
    /\ UNCHANGED <<ctxs, LAST_ERROR, last, alone>>

TopKCall ==
    /\ work.op = "top_k" /\ ~work.done
    /\ work' = [work EXCEPT !.done = TRUE, !.out = Apply(TopK(work.k), work.L)]
    /\ UNCHANGED <<ctxs, LAST_ERROR, last, alone>>

TopPCall ==
    /\ work.op = "top_p" /\ ~work.done
    /\ work' = [work EXCEPT !.done = TRUE, !.out = Apply(TopP(work.p), work.L)]
    /\ UNCHANGED <<ctxs, LAST_ERROR, last, alone>>

NextSampler == SampleCall \/ TopKCall \/ TopPCall

SpecSampler == InitSampler /\ [][NextSampler]_vars

\* ------------------------------------------------------------------------
\* A RepetitionPenalty(p, W) sampler used directly: add_token, reset and
\* apply in any order.  pushed is the ids pushed since the last reset.
\* ------------------------------------------------------------------------
MaxHistory == 2

MaxPushed == 3

TokenIds == {0, 1, 2}

WindowVectors == {ToTokenLogits(l) : l \in [1..3 -> {-2, 3}]}

\* RepetitionPenaltySampler::new(penalty, max_history)
RepetitionNew(penalty, max_history) ==
    [op |-> "new", penalty |-> penalty, max_history |-> max_history,
     recent_tokens |-> <<>>, pushed |-> <<>>, L |-> <<>>, out |-> <<>>]

InitWindow ==
    /\ NoSessions
    /\ work \in {RepetitionNew(penalty, W) :
                     penalty \in {Rat(2, 1), Rat(1, 2)}, W \in 0..MaxHistory}

AddToken(token) ==
    /\ Len(work.pushed) < MaxPushed
    /\ work' = [work EXCEPT
                    !.op = "add_token",
                    !.recent_tokens = add_token(work.recent_tokens, work.max_history, token),
                    !.pushed = Append(work.pushed, token)]
    /\ UNCHANGED <<ctxs, LAST_ERROR, last, alone>>

ResetWindow ==
    /\ work' = [work EXCEPT
                    !.op = "reset",
                    !.recent_tokens = RepetitionReset(work.recent_tokens),
                    !.pushed = <<>>]
    /\ UNCHANGED <<ctxs, LAST_ERROR, last, alone>>

ApplyWindow(L) ==
    /\ work' = [work EXCEPT
                    !.op = "apply",
                    !.L = L,
                    !.out = Apply(RepetitionPenalty(work.penalty, work.recent_tokens), L)]
    /\ UNCHANGED <<ctxs, LAST_ERROR, last, alone>>

NextWindow ==
    \/ \E token \in TokenIds : AddToken(token)
    \/ ResetWindow
    \/ \E L \in WindowVectors : ApplyWindow(L)

SpecWindow == InitWindow /\ [][NextWindow]_vars

\* ------------------------------------------------------------------------
\* The tokenizer used directly: BpeTokenizer::from_gguf on metadata tables,
\* and encode and decode on the tokenizers it accepts.
\* ------------------------------------------------------------------------
MaxText == 3

\* "<pad>", "a", "b": no token for the merged pair "ab"
PairTokens == << <<60, 112, 97, 100, 62>>, <<97>>, <<98>> >>

\* Merge tables: "a b"; none; "ab" (no space); "a b c" and "a  b" (two
\* spaces); " " (one space, both sides empty).
MergeTables ==
    {FixtureMerges, <<>>, << <<97, 98>> >>, << <<97, 32, 98, 32, 99>> >>,
     << <<97, 32, 98>>, <<97, 32, 32, 98>> >>, << <<32>> >>}

TokenizerTables ==
    {Metadata(tokens, merges, 2, 16) :
         tokens \in {FixtureTokens, PairTokens, ByteTokens}, merges \in MergeTables}

\* The tokenizers from_gguf accepts
Tokenizers == {BpeFromGguf(md).val : md \in {t \in TokenizerTables : IsOk(BpeFromGguf(t))}}

\* Texts over "a", "b" and the space
TokenizerTexts == UNION {[1..n -> {97, 98, 32}] : n \in 0..MaxText}

IdSeqs == {<<>>, <<3, 6>>, <<6>>, <<7, 3>>, <<0, 9>>}

TokenizerInputs ==
    {[op |-> "from_gguf", done |-> FALSE, md |-> md, out |-> Err("none")] :
         md \in TokenizerTables}
    \cup {[op |-> "encode", done |-> FALSE, tk |-> tk, text |-> text, ids |-> <<>>,
           decoded |-> <<>>] : tk \in Tokenizers, text \in TokenizerTexts}
    \cup {[op |-> "decode", done |-> FALSE, tk |-> tk, ids |-> ids, text |-> <<>>] :
              tk \in Tokenizers, ids \in IdSeqs}

InitTokenizer == NoSessions /\ work \in TokenizerInputs

FromGgufCall ==
    /\ work.op = "from_gguf" /\ ~work.done
    /\ work' = [work EXCEPT !.done = TRUE, !.out = BpeFromGguf(work.md)]
    /\ UNCHANGED <<ctxs, LAST_ERROR, last, alone>>

\* encode, and decode of what it returned
EncodeCall ==
    /\ work.op = "encode" /\ ~work.done
    /\ work' = [work EXCEPT
                    !.done = TRUE,
                    !.ids = encode(work.tk, work.text),
                    !.decoded = decode(work.tk, encode(work.tk, work.text))]
    /\ UNCHANGED <<ctxs, LAST_ERROR, last, alone>>

DecodeCall ==
    /\ work.op = "decode" /\ ~work.done
    /\ work' = [work EXCEPT !.done = TRUE, !.text = decode(work.tk, work.ids)]
    /\ UNCHANGED <<ctxs, LAST_ERROR, last, alone>>

NextTokenizer == FromGgufCall \/ EncodeCall \/ DecodeCall

SpecTokenizer == InitTokenizer /\ [][NextTokenizer]_vars

\* ------------------------------------------------------------------------
\* The merge loop of BpeTokenizer::encode, one iteration at a time.  work
\* holds the loop's tokens, the tokens before the last iteration (prev), the
\* index that iteration merged at (best, 0 when it merged nothing) and the
\* number of merges so far.
\* ------------------------------------------------------------------------
MaxMergeText == 4

\* "a b", "b a" | "b a", "a b" | "a b", "ab a" | "a a" | "a b", "b a", "a b"
\* (the pair a b recorded twice) | "ab ab", "a b" | none
RankTables ==
    { << <<97, 32, 98>>, <<98, 32, 97>> >>,
      << <<98, 32, 97>>, <<97, 32, 98>> >>,
      << <<97, 32, 98>>, <<97, 98, 32, 97>> >>,
      << <<97, 32, 97>> >>,
      << <<97, 32, 98>>, <<98, 32, 97>>, <<97, 32, 98>> >>,
      << <<97, 98, 32, 97, 98>>, <<97, 32, 98>> >>,
      <<>> }

MergeTokenizers == {BpeFromGguf(Metadata(FixtureTokens, merges, 2, 16)).val : merges \in RankTables}

\* encode returns before the loop for the empty text
MergeTexts == UNION {[1..n -> {97, 98}] : n \in 1..MaxMergeText}

InitialTokens(tk, text) == [i \in 1..Len(text) |-> InitialToken(tk, text[i])]

InitMerge ==
    /\ NoSessions
    /\ \E tk \in MergeTokenizers, text \in MergeTexts :
           work = [op |-> "merge", done |-> FALSE, tk |-> tk,
                   start |-> InitialTokens(tk, text), tokens |-> InitialTokens(tk, text),
                   prev |-> InitialTokens(tk, text), best |-> 0, merges |-> 0]

\* One iteration of the loop: break, or merge at best_idx
MergeStep ==
    /\ work.op = "merge" /\ ~work.done
    /\ LET best == IF Len(work.tokens) < 2 THEN 0
                   ELSE BestIdx(work.tk, work.tokens, 1, 0, 0)
       IN  work' = IF best = 0
                   THEN [work EXCEPT !.done = TRUE, !.prev = work.tokens, !.best = 0]
                   ELSE [work EXCEPT !.tokens = MergeAt(work.tokens, best),
                                     !.prev = work.tokens, !.best = best,
                                     !.merges = work.merges + 1]
    /\ UNCHANGED <<ctxs, LAST_ERROR, last, alone>>

NextMerge == MergeStep

SpecMerge == InitMerge /\ [][NextMerge]_vars

\* ------------------------------------------------------------------------
\* LlamaModel::forward used directly: on models as from_gguf builds them,
\* their cache fresh or holding the rows of an earlier forward at position
\* 0.  work holds the model before the call (m), the result (out) and the
\* model after it (after).
\* ------------------------------------------------------------------------
MaxForward == 2

\* tiny.gguf; bytes.gguf; tiny.gguf with a layer-1 norm of the wrong length
ForwardFiles ==
    {Disk["tiny.gguf"], Disk["bytes.gguf"],
     [Disk["tiny.gguf"] EXCEPT !.tensors[Blk(1, "attn_norm")].numel = 2]}

\* forward mutates self.cache only
AfterForward(m, fx) == [m EXCEPT !.cache = fx.cache]

ForwardModels ==
    UNION {{ModelFromGguf(file).val,
            AfterForward(ModelFromGguf(file).val, forward(ModelFromGguf(file).val, <<3>>, 0)),
            AfterForward(ModelFromGguf(file).val,
                         forward(ModelFromGguf(file).val, <<3, 2, 3>>, 0))} :
               file \in ForwardFiles}

\* Token ids: 2 and 3 are in every vocabulary, 9 in none
ForwardTokenSeqs == UNION {[1..n -> {2, 3, 9}] : n \in 0..MaxForward}

Positions == 0..4

InitForward ==
    /\ NoSessions
    /\ \E m \in ForwardModels, tokens \in ForwardTokenSeqs, pos \in Positions :
           work = [op |-> "forward", done |-> FALSE, m |-> m, tokens |-> tokens,
                   pos |-> pos, out |-> forward(m, <<>>, 0), after |-> m]

ForwardCall ==
    /\ work.op = "forward" /\ ~work.done
    /\ LET Done(fx) == [work EXCEPT !.done = TRUE, !.out = fx,
                                    !.after = AfterForward(work.m, fx)]
       IN  work' = Done(forward(work.m, work.tokens, work.pos))
    /\ UNCHANGED <<ctxs, LAST_ERROR, last, alone>>

NextForward == ForwardCall

SpecForward == InitForward /\ [][NextForward]_vars

\* ------------------------------------------------------------------------
\* ir_generate and ir_generate_streaming under every value of the sampling
\* parameters, on a session with a model loaded whose cache is fresh or
\* holds the rows of an earlier generation.  work holds the session (ctx),
\* the arguments and the result of the call (r).
\* ------------------------------------------------------------------------
\* IRGenerateParams: the six fields
GenerateParams(max_tokens, temperature, top_k, top_p, repetition_penalty, seed) ==
    [max_tokens |-> max_tokens, temperature |-> temperature, top_k |-> top_k,
     top_p |-> top_p, repetition_penalty |-> repetition_penalty, seed |-> seed]

\* 0.5, 1, 0, -1 and +infinity
Temperatures == {Rat(1, 2), Rat(1, 1), Rat(0, 1), Rat(-1, 1), Rat(1, 0)}

SamplingParams ==
    {GenerateParams(MaxTokens, temperature, top_k, top_p, repetition_penalty, seed) :
         temperature \in Temperatures, top_k \in {0, 1, 2},
         top_p \in {Rat(0, 1), Rat(1, 2), Rat(1, 1)},
         repetition_penalty \in {Rat(1, 1), Rat(2, 1)}, seed \in {0, 1}}

Loaded(name) == ModelLoadBody(Disk, ContextNew, CPath(name)).ctx

\* tiny.gguf and bytes.gguf just loaded, and tiny.gguf after a generation
LoadedSessions ==
    {Loaded("tiny.gguf"), Loaded("bytes.gguf"),
     GenerateBody(Loaded("tiny.gguf"), CStr(<<97>>), Params(MaxTokens, 0), FALSE).ctx}

InitParams ==
    /\ NoSessions
    /\ \E ctx \in LoadedSessions, s \in Texts, params \in SamplingParams,
          op \in {"ir_generate", "ir_generate_streaming"} :
           work = [op |-> op, done |-> FALSE, ctx |-> ctx, prompt |-> CStr(s),
                   params |-> params,
                   r |-> WithRun(Ret("Ok", NoError, ctx), None)]

GenerateCall ==
    /\ work.op = "ir_generate" /\ ~work.done
    /\ work' = [work EXCEPT
                    !.done = TRUE,
                    !.r = catch_panic(GenerateBody(work.ctx, work.prompt, work.params, FALSE))]
    /\ UNCHANGED <<ctxs, LAST_ERROR, last, alone>>

StreamingCall ==
    /\ work.op = "ir_generate_streaming" /\ ~work.done
    /\ work' = [work EXCEPT
                    !.done = TRUE,
                    !.r = catch_panic(StreamingBody(work.ctx, work.prompt, work.params,
                                                    Callback(0)))]
    /\ UNCHANGED <<ctxs, LAST_ERROR, last, alone>>

NextParams == GenerateCall \/ StreamingCall

SpecParams == InitParams /\ [][NextParams]_vars

\* ------------------------------------------------------------------------
\* One session that loads every file of the disk, a missing one and a path
\* that is not UTF-8, between generations that fill the KV cache.
\* ------------------------------------------------------------------------
NextReload ==
    \/ ContextCreate(1, 1)
    \/ \E path \in LoadPaths : ModelLoad(1, 1, path)
    \/ \E s \in SessionTexts : Generate(1, 1, CStr(s), Params(MaxTokens, 0), FALSE)
    \/ Reset(1, 1)

SpecReload == Init /\ [][NextReload]_vars

\* ------------------------------------------------------------------------
\* One session called with the empty prompt and with "a" and "ba", before
\* and after a load of tiny.gguf, bytes.gguf or nokv.gguf (a file whose
\* llama.attention.head_count_kv is 0).
\* ------------------------------------------------------------------------
EmptyText == <<>>

PromptTexts == {EmptyText} \cup SessionTexts

PromptPaths == {CPath("tiny.gguf"), CPath("bytes.gguf"), CPath("nokv.gguf")}

NextPrompt ==
    \/ ContextCreate(1, 1)
    \/ \E path \in PromptPaths : ModelLoad(1, 1, path)
    \/ \E s \in PromptTexts : Generate(1, 1, CStr(s), Params(MaxTokens, 0), FALSE)
    \/ \E s \in PromptTexts :
           GenerateStreaming(1, 1, CStr(s), Params(MaxTokens, 0), Callback(0))
    \/ Reset(1, 1)

SpecPrompt == Init /\ [][NextPrompt]_vars

\* ------------------------------------------------------------------------
\* One session with a small context window: tiny.gguf (max_seq_len 3) and
\* flat.gguf (max_seq_len 2, head_dim 0), prompts of one to three tokens.
\* ------------------------------------------------------------------------
WindowPaths == {CPath("tiny.gguf"), CPath("flat.gguf")}

NextBounds ==
    \/ ContextCreate(1, 1)
    \/ \E path \in WindowPaths : ModelLoad(1, 1, path)
    \/ \E s \in Texts : Generate(1, 1, CStr(s), Params(MaxTokens, 0), FALSE)
    \/ \E s \in Texts : GenerateStreaming(1, 1, CStr(s), Params(MaxTokens, 0), Callback(0))
    \/ Reset(1, 1)

SpecBounds == Init /\ [][NextBounds]_vars

\* ------------------------------------------------------------------------
\* The metadata getters used directly, and the two loaders that look up an
\* optional key: LlamaConfig::from_gguf (llama.rope.freq_base) and
\* BpeTokenizer::from_gguf (tokenizer.ggml.merges).
\* ------------------------------------------------------------------------
Getters ==
    {"get_string", "get_u32", "get_u64", "get_i32", "get_f32", "get_string_array",
     "get_f32_array"}

\* One value of every kind the getters return, of kinds they never return,
\* and arrays: empty, of strings, of f32, and of a string then an f32.
MetaValues ==
    << Str(<<97>>), U32(5), [kind |-> "U64", val |-> 7], [kind |-> "I32", val |-> -1],
       F32(1), [kind |-> "U8", val |-> 1], [kind |-> "Bool", val |-> TRUE],
       StrArray(<<>>), StrArray(<< <<97, 32, 98>> >>), F32Array(1),
       [kind |-> "Array", val |-> <<Str(<<97>>), F32(0)>>] >>

MetaKeys == {"general.name", "general.alignment"}

LoadTable == Metadata(FixtureTokens, FixtureMerges, 2, 16)

\* Values of llama.embedding_length, llama.attention.head_count and
\* llama.attention.head_count_kv a file can hold
EmbdLengths == {4, 5, 6}

HeadCounts == {0, 1, 2, 4}

KvHeadCounts == {0, 1, 2, 3}

HyperTable(n_embd, n_heads, n_kv_heads) ==
    ("llama.embedding_length" :> U32(n_embd))
    @@ ("llama.attention.head_count" :> U32(n_heads))
    @@ ("llama.attention.head_count_kv" :> U32(n_kv_heads))
    @@ LoadTable

\* table without key (i = 0), or with key holding the i-th value
TableWith(table, key, i) ==
    IF i = 0 THEN Without(table, key) ELSE (key :> MetaValues[i]) @@ table

InitMetadata ==
    /\ NoSessions
    /\ \/ \E n_embd \in EmbdLengths, n_heads \in HeadCounts, n_kv_heads \in KvHeadCounts :
              work = [op |-> "config", done |-> FALSE,
                      md |-> HyperTable(n_embd, n_heads, n_kv_heads),
                      out |-> Err("none")]
       \/ \E i \in 0..Len(MetaValues) :
              \/ \E g \in Getters, key \in MetaKeys :
                     work = [op |-> "get", done |-> FALSE, getter |-> g,
                             md |-> TableWith(<<>>, "general.name", i), key |-> key,
                             out |-> Err("none")]
              \/ work = [op |-> "config", done |-> FALSE,
                         md |-> TableWith(LoadTable, "llama.rope.freq_base", i),
                         out |-> Err("none")]
              \/ work = [op |-> "from_gguf", done |-> FALSE,
                         md |-> TableWith(LoadTable, "tokenizer.ggml.merges", i),
                         out |-> Err("none")]

Get(getter, md, key) ==
    CASE getter = "get_string" -> get_string(md, key)
      [] getter = "get_u32" -> get_u32(md, key)
      [] getter = "get_u64" -> get_u64(md, key)
      [] getter = "get_i32" -> get_i32(md, key)
      [] getter = "get_f32" -> get_f32(md, key)
      [] getter = "get_string_array" -> get_string_array(md, key)
      [] getter = "get_f32_array" -> get_f32_array(md, key)

GetCall ==
    /\ work.op = "get" /\ ~work.done
    /\ work' = [work EXCEPT !.done = TRUE, !.out = Get(work.getter, work.md, work.key)]
    /\ UNCHANGED <<ctxs, LAST_ERROR, last, alone>>

ConfigCall ==
    /\ work.op = "config" /\ ~work.done
    /\ work' = [work EXCEPT !.done = TRUE, !.out = ConfigFromGguf(work.md)]
    /\ UNCHANGED <<ctxs, LAST_ERROR, last, alone>>

NextMetadata == GetCall \/ ConfigCall \/ FromGgufCall

SpecMetadata == InitMetadata /\ [][NextMetadata]_vars

\* ------------------------------------------------------------------------
\* Properties.  They read the last call: its arguments, its status and, for
\* a generation that got as far as the model, the events of its run.
\* ------------------------------------------------------------------------
IsRun == last.op \in {"ir_generate", "ir_generate_streaming"} /\ last.run.some

IsStreaming == last.op = "ir_generate_streaming" /\ last.run.some

IsGenerate == last.op = "ir_generate" /\ last.run.some

Ev == last.run.val.events

Tk == ctxs[last.ctx].val.tokenizer.val

IsSample(e) == e.ev = "sample"

IsForward(e) == e.ev = "forward"

IsCallback(e) == e.ev = "callback"

\* The token ids sampled by the first n events, in order.
SampledIn(events, n) ==
    LET samples == SelectSeq(SubSeq(events, 1, n), IsSample)
    IN  [i \in 1..Len(samples) |-> samples[i].token]

Sampled == SampledIn(Ev, Len(Ev))

\* tokenizer.vocab.eos_id of the session of the last call
EosId == Tk.vocab.eos_id

HasNul(text) == 0 \in Range(text)

\* C1: in ir_generate and ir_generate_streaming on a loaded model with a
\* non-empty prompt, when EOS is never sampled, the callback never returns
\* false and no position reaches max_seq_len, exactly max_tokens tokens are
\* produced, for every max_tokens >= 0: the callback is invoked max_tokens
\* times, the returned text is the decode of max_tokens ids.  (Read in the
\* claim's favour: the callback is not null and no token's text holds a NUL
\* byte.)  The code samples the first token before it looks at max_tokens.
C1_ExactlyMaxTokens ==
    (/\ IsRun
     /\ last.run.val.tag # "panic"
     /\ \A i \in 1..Len(Ev) : IsSample(Ev[i]) => Ev[i].token # EosId
     /\ \A i \in 1..Len(Ev) : IsCallback(Ev[i]) => Ev[i].ret
     /\ \A i \in 1..Len(Sampled) : ~HasNul(decode(Tk, <<Sampled[i]>>))
     /\ IsStreaming => ~last.callback.null)
    => /\ last.status = "Ok"
       /\ Len(Sampled) = last.max_tokens
       /\ IsStreaming => Invocations(Ev) = last.max_tokens
       /\ IsGenerate => last.run.val.output = Some(decode(Tk, Sampled))

\* C2: in ir_generate_streaming, once the callback has returned false there
\* is no further model.forward call and no further callback invocation in
\* that call, and the call returns Ok.
C2_StopAfterFalse ==
    IsStreaming =>
        \A i \in 1..Len(Ev) :
            (IsCallback(Ev[i]) /\ ~Ev[i].ret) => (i = Len(Ev) /\ last.status = "Ok")

\* The callback returned false while tokens were left in the budget.
C2_Witness ==
    /\ IsStreaming
    /\ \E i \in 1..Len(Ev) : IsCallback(Ev[i]) /\ ~Ev[i].ret
    /\ Invocations(Ev) < last.max_tokens

\* The text ir_generate returns for the ids sampled before event i.
TextBefore(i) == decode(Tk, SampledIn(Ev, i - 1))

\* What the sampling of EOS at event i leaves, whatever the status is: it is
\* the last event, so EOS is not forwarded, not delivered, and nothing is
\* sampled after it.
EosIsLast(i) ==
    /\ i = Len(Ev)
    /\ \A j \in 1..Len(Ev) : IsCallback(Ev[j]) => Ev[j].token # EosId
    /\ \A j \in 2..Len(Ev) : IsForward(Ev[j]) => Ev[j].tokens[1] # EosId

\* C3 as stated: as soon as EOS is sampled the generation ends with status
\* Ok, EOS is never forwarded, delivered or part of the text, and no token
\* comes after it.
C3_EosEndsWithOk ==
    IsRun =>
        \A i \in 1..Len(Ev) :
            (IsSample(Ev[i]) /\ Ev[i].token = EosId) =>
                /\ EosIsLast(i)
                /\ last.status = "Ok"
                /\ IsGenerate => last.run.val.output = Some(TextBefore(i))

\* C3, amended: as above, except that ir_generate returns ErrorGenerate
\* ("output encoding error") and no text when the text of the tokens
\* sampled before EOS holds a NUL byte.
C3_EosEndsGeneration ==
    IsRun =>
        \A i \in 1..Len(Ev) :
            (IsSample(Ev[i]) /\ Ev[i].token = EosId) =>
                /\ EosIsLast(i)
                /\ IsStreaming => last.status = "Ok"
                /\ (IsGenerate /\ ~HasNul(TextBefore(i))) =>
                       /\ last.status = "Ok"
                       /\ last.run.val.output = Some(TextBefore(i))
                /\ (IsGenerate /\ HasNul(TextBefore(i))) =>
                       /\ last.status = "ErrorGenerate"
                       /\ last.err = "output encoding error"
                       /\ last.run.val.output = None

\* EOS was sampled after at least one token, with tokens left in the budget.
C3_Witness ==
    /\ IsGenerate
    /\ last.status = "Ok"
    /\ Len(Sampled) >= 2
    /\ Len(Sampled) <= last.max_tokens
    /\ Sampled[Len(Sampled)] = EosId

\* The model of the session of the last call
Model == ctxs[last.ctx].val.model.val

Max(a, b) == IF a > b THEN a ELSE b

\* 1 + the highest position among the <<layer, position>> rows, 0 for none
TopWritten(writes) ==
    IF writes = {} THEN 0
    ELSE 1 + CHOOSE p \in {w[2] : w \in writes} : \A w \in writes : w[2] <= p

\* cache.len when forward event i starts: what the call found, then what
\* the forward before left
LenAt(i) ==
    LET before == {j \in 1..(i - 1) : IsForward(Ev[j])}
    IN  IF before = {} THEN last.len_before
        ELSE Ev[CHOOSE j \in before : \A k \in before : k <= j].len_after

\* C4: after a successful forward(tokens, p) over T >= 1 tokens cache.len
\* is at least p + T, and a forward call never decreases cache.len: len is
\* the highest position written since the last reset, plus 1.
C4_LenNeverDecreases ==
    IsRun =>
        /\ \A i \in 1..Len(Ev) :
               IsForward(Ev[i]) =>
                   /\ Ev[i].len_before = LenAt(i)
                   /\ Ev[i].len_after >= Ev[i].len_before
                   /\ Ev[i].len_after = Max(Ev[i].len_before, TopWritten(Ev[i].writes))
                   /\ (Ev[i].tag = "ok" /\ Len(Ev[i].tokens) >= 1) =>
                          Ev[i].len_after >= Ev[i].pos + Len(Ev[i].tokens)
        /\ Model.cache.len = last.run.val.cache.len
        /\ Model.cache.len >= last.len_before

\* A successful forward on a cache whose len was already beyond its tokens.
C4_Witness ==
    /\ IsRun
    /\ \E i \in 1..Len(Ev) :
           /\ IsForward(Ev[i])
           /\ Ev[i].tag = "ok"
           /\ Ev[i].len_before > Ev[i].pos + Len(Ev[i].tokens)
           /\ Ev[i].len_after = Ev[i].len_before

\* KvCache::new for the configuration of model m, as LlamaModel::from_gguf
\* calls it
FreshCache(m) ==
    KvCacheNew(m.config.n_layers, m.config.n_kv_heads, m.config.head_dim,
               m.config.max_seq_len)

TokensOf(run) == SampledIn(run.events, Len(run.events))

\* C5: after ir_reset, whatever came before, every K and V entry of every
\* layer and len equal those of a freshly constructed cache, and a
\* generation run gives the token sequence it gives on the freshly loaded
\* model.
C5_ResetEqualsFresh ==
    (last.op = "ir_reset" /\ last.ctx # NullHandle /\ ctxs[last.ctx].val.model.some) =>
        /\ last.status = "Ok"
        /\ Model.cache = FreshCache(Model)
        /\ \A s \in Texts, ps \in ParamsSet :
               /\ TokensOf(GenerateRun(Model, Tk, s, ps))
                      = TokensOf(GenerateRun([Model EXCEPT !.cache = FreshCache(Model)],
                                             Tk, s, ps))
               /\ TokensOf(StreamingRun(Model, Tk, s, ps, Callback(0)))
                      = TokensOf(StreamingRun([Model EXCEPT !.cache = FreshCache(Model)],
                                              Tk, s, ps, Callback(0)))

\* A reset of a cache that held rows.
C5_Witness ==
    /\ last.op = "ir_reset"
    /\ last.ctx # NullHandle
    /\ ctxs[last.ctx].val.model.some
    /\ last.len_before >= 2

\* The <<layer, position>> rows written by the forwards up to event i
WrittenUpTo(i) == UNION {Ev[j].writes : j \in {k \in 1..i : IsForward(Ev[k])}}

C10_FaultIsInternal ==
    last.fault => (last.status = "ErrorInternal" /\ LAST_ERROR[last.thread] = "internal panic")

\* A generation that wrote rows and then faulted.
C10_Witness ==
    /\ IsRun
    /\ last.fault
    /\ last.run.val.tag = "panic"
    /\ Len(Ev) >= 3

EntryPoints == {"ir_context_create", "ir_model_load", "ir_generate",
                "ir_generate_streaming", "ir_reset"}

Failed(call) == call.op \in EntryPoints /\ call.status # "Ok"

\* C7: after an entry point fails, ir_last_error returns the message of
\* that failure, and retrieval clears the slot: a second ir_last_error with
\* no failure in between returns null.  (ir_reset on a null handle fails
\* and records nothing.)
C7_LastErrorReturnsFailure ==
    [][(last'.op = "ir_last_error" /\ last'.thread = last.thread) =>
           /\ Failed(last) => (last'.returned # NoError /\ last'.returned = last.err)
           /\ last.op = "ir_last_error" => last'.returned = NoError]_vars

\* C8: every call of an entry point that returns a non-Ok status, null
\* handles included, leaves a message describing that failure retrievable
\* right afterwards.
C8_FailureLeavesMessage ==
    Failed(last) =>
        /\ LAST_ERROR[last.thread] # NoError
        /\ LAST_ERROR[last.thread] = last.err

\* C9 as stated: the slot is per session, so a failing call on session B,
\* right after a failure on session A, leaves the error recorded for A
\* where it was.
C9_PerSession ==
    [][(/\ Failed(last) /\ last.ctx # NullHandle /\ last.err # NoError
        /\ Failed(last') /\ last'.ctx # NullHandle /\ last'.err # NoError
        /\ last'.ctx # last.ctx)
       => LAST_ERROR'[last.thread] = last.err]_vars

\* C9, amended: the slot is per thread.  A call made on one thread never
\* changes the slot of another thread, whatever session it is on; the slot
\* of a thread changes only when a call on that thread fails with a
\* message (it then holds that message) or when that thread retrieves it.
C9_PerThread ==
    [][\A t \in Threads :
           LAST_ERROR'[t] # LAST_ERROR[t] =>
               /\ last'.thread = t
               /\ \/ last'.op = "ir_last_error" /\ LAST_ERROR'[t] = NoError
                  \/ Failed(last') /\ LAST_ERROR'[t] = last'.err]_vars

\* A failure on one thread while the other thread's slot holds the message
\* of a different failure.
C9_Witness ==
    /\ Failed(last)
    /\ last.ctx # NullHandle
    /\ last.err # NoError
    /\ \E t \in Threads :
           /\ t # last.thread
           /\ LAST_ERROR[t] # NoError
           /\ LAST_ERROR[t] # last.err

FatalFiles == {"truncated.gguf", "short.gguf", "garbage.gguf", "badtype.gguf",
               "notensor.gguf", "badutf8.gguf"}

IsLoadOf(names) ==
    /\ last.op = "ir_model_load"
    /\ last.ctx # NullHandle
    /\ ~last.path.null
    /\ last.path.utf8
    /\ last.path.s \in names

\* C12: ir_model_load on a file with a short read (a tensor-data region
\* shorter than a required tensor's data_size included), a bad magic, an
\* unknown type ID, a missing required tensor or a non-UTF-8 string returns
\* ErrorModelLoad.
C12_FatalLoadError ==
    IsLoadOf(FatalFiles) => last.status = "ErrorModelLoad"

\* The entries of L with the largest logit, and the lowest token id among them
MaxLogit(L) == CHOOSE x \in {L[i].logit : i \in 1..Len(L)} :
                   \A i \in 1..Len(L) : L[i].logit <= x

ArgMax(L) == CHOOSE t \in {L[i].token_id : i \in 1..Len(L)} :
                 /\ \E i \in 1..Len(L) : L[i].token_id = t /\ L[i].logit = MaxLogit(L)
                 /\ \A i \in 1..Len(L) : L[i].logit = MaxLogit(L) => t <= L[i].token_id

Min(a, b) == IF a <= b THEN a ELSE b

Entries(L) == {L[i] : i \in 1..Len(L)}

\* out keeps n entries of L, each once, and no entry it drops has a larger
\* logit than one it keeps.
KeepsLargest(L, out, n) ==
    /\ Len(out) = n
    /\ Cardinality(Entries(out)) = n
    /\ Entries(out) \subseteq Entries(L)
    /\ \A x \in Entries(L) \ Entries(out), y \in Entries(out) : x.logit <= y.logit

\* C14 as stated: after TopK(k) the vector has exactly min(k, |L|) entries,
\* for every k >= 0 and every L, and the kept entries are those with the
\* largest logits.
C14_ExactlyMinK ==
    (work.op = "top_k" /\ work.done) =>
        KeepsLargest(work.L, work.out, Min(work.k, Len(work.L)))

\* C14, amended: for k >= 1 the vector has exactly min(k, |L|) entries, those
\* with the largest logits; TopK(0) is disabled and leaves L as it is.
C14_MinKUnlessZero ==
    (work.op = "top_k" /\ work.done) =>
        IF work.k = 0 THEN work.out = work.L
        ELSE KeepsLargest(work.L, work.out, Min(work.k, Len(work.L)))

\* A cut through a vector that is not in descending order.
C14_Witness ==
    /\ work.op = "top_k"
    /\ work.done
    /\ work.k = 2
    /\ Len(work.L) = 3
    /\ work.L[1].logit < work.L[3].logit
    /\ work.out[1] = work.L[3]

IsDescending(L) == \A i \in 1..(Len(L) - 1) : L[i].logit >= L[i + 1].logit

\* The softmax probability of the first n entries of a descending vector
\* exceeds p (strictly): sum of exp(logit - max) over the prefix against the
\* sum over the vector.
PrefixExceeds(sorted, n, p) ==
    LET exps == [i \in 1..Len(sorted) |-> ExpNeg(sorted[1].logit - sorted[i].logit)]
    IN  SumSeq(Take(exps, n)) * p.den > p.num * SumSeq(exps)

\* C15: TopP(p) on a non-empty L sorts it by descending logit and truncates
\* it to the smallest prefix whose cumulative softmax probability strictly
\* exceeds p; at least one entry is kept, and every entry when no prefix
\* exceeds p.
C15_SmallestPrefixOverP ==
    (work.op = "top_p" /\ work.done /\ work.L # <<>>) =>
        LET n == Len(work.out)
            sorted == work.out \o SortDesc(SelectSeq(work.L, LAMBDA x : x \notin Entries(work.out)))
        IN  /\ n >= 1
            /\ KeepsLargest(work.L, work.out, n)
            /\ IsDescending(work.out)
            /\ PrefixExceeds(sorted, n, work.p) \/ n = Len(work.L)
            /\ \A m \in 1..(n - 1) : ~PrefixExceeds(sorted, m, work.p)

\* The cumulative probability does not exceed p after the first entry of a vector
\* that had to be sorted, and exceeds it after the second.
C15_Witness ==
    /\ work.op = "top_p"
    /\ work.done
    /\ Len(work.L) = 3
    /\ Len(work.out) = 2
    /\ ~IsDescending(work.L)
    /\ ~PrefixExceeds(work.out, 1, work.p)
    /\ work.out[1].logit = work.out[2].logit
    /\ work.p = Rat(1, 2)

\* The last n elements of s
LastN(s, n) == SubSeq(s, Len(s) - n + 1, Len(s))

\* C16: after any sequence of add_token and reset calls on
\* RepetitionPenalty(p, W) the window holds at most W ids and equals the last
\* min(n, W) of the n ids pushed since the last reset, in push order; apply
\* changes only the logits of entries whose id is in the window.
C16_WindowIsLastW ==
    /\ Len(work.recent_tokens) <= work.max_history
    /\ work.recent_tokens = LastN(work.pushed, Min(Len(work.pushed), work.max_history))
    /\ work.op = "apply" =>
           /\ Len(work.out) = Len(work.L)
           /\ \A i \in 1..Len(work.L) :
                  /\ work.out[i].token_id = work.L[i].token_id
                  /\ work.out[i].logit # work.L[i].logit =>
                         work.L[i].token_id \in Range(work.recent_tokens)

\* apply on a full window that has dropped its oldest id: an entry of the
\* dropped id keeps its logit, an entry of a kept id does not.
C16_Witness ==
    /\ work.op = "apply"
    /\ work.max_history = 2
    /\ Len(work.pushed) = 3
    /\ work.pushed[1] \notin Range(work.recent_tokens)
    /\ \E i \in 1..Len(work.L) : work.out[i].logit # work.L[i].logit
    /\ \E i \in 1..Len(work.L) :
           work.L[i].token_id = work.pushed[1] /\ work.out[i] = work.L[i]

\* The tokenizer of the fixture: tokens "<pad>", "<bos>", "<eos>", "a", "b",
\* "c", "ab", "ba" and merges "a b".
FixtureTokenizer == BpeFromGguf(Fixture.metadata).val

IsEncode(tk, text) == work.op = "encode" /\ work.done /\ work.tk = tk /\ work.text = text

IsDecode(tk, ids) == work.op = "decode" /\ work.done /\ work.tk = tk /\ work.ids = ids

\* C17 as stated: under the fixture, encode("a b") returns [3, 6] and
\* decode([3, 6]) returns "aab".
C17_EncodeMerged ==
    /\ IsEncode(FixtureTokenizer, <<97, 32, 98>>) => work.ids = <<3, 6>>
    /\ IsDecode(FixtureTokenizer, <<3, 6>>) => work.text = <<97, 97, 98>>

\* C17, amended: under the fixture, encode("a b") returns [3, 0, 4]: the
\* space has no token, stands between "a" and "b" so that no merge applies,
\* and maps to id 0; decode([3, 6]) returns "aab".
C17_EncodeUnmerged ==
    /\ IsEncode(FixtureTokenizer, <<97, 32, 98>>) => work.ids = <<3, 0, 4>>
    /\ IsDecode(FixtureTokenizer, <<3, 6>>) => work.text = <<97, 97, 98>>

C17_Witness == IsEncode(FixtureTokenizer, <<97, 32, 98>>)

\* C18: decode(encode(s)) = s for every ASCII string s all of whose
\* characters are individually present in the vocabulary, for every
\* vocabulary and merge table accepted at load.
C18_RoundTrip ==
    (/\ work.op = "encode"
     /\ work.done
     /\ \A i \in 1..Len(work.text) :
            work.text[i] < 128 /\ contains_key(work.tk.vocab, <<work.text[i]>>))
    => work.decoded = work.text

\* The number of spaces (byte 32) in a merge entry
Spaces(entry) == Cardinality({i \in 1..Len(entry) : entry[i] = 32})

\* C19: BpeTokenizer::from_gguf fails with a tokenizer load error for every
\* tokenizer.ggml.merges entry that does not hold exactly one space (none,
\* or two or more).
C19_OneSpaceOrError ==
    (/\ work.op = "from_gguf"
     /\ work.done
     /\ \E i \in 1..Len(work.md["tokenizer.ggml.merges"].val) :
            Spaces(work.md["tokenizer.ggml.merges"].val[i].val) # 1)
    => (~IsOk(work.out) /\ work.out.err.kind = "TokenizerError")

\* The kind a getter returns: a scalar kind, or an array of elem
Wanted(getter) ==
    CASE getter = "get_string" -> [kind |-> "String", elem |-> "none"]
      [] getter = "get_u32" -> [kind |-> "U32", elem |-> "none"]
      [] getter = "get_u64" -> [kind |-> "U64", elem |-> "none"]
      [] getter = "get_i32" -> [kind |-> "I32", elem |-> "none"]
      [] getter = "get_f32" -> [kind |-> "F32", elem |-> "none"]
      [] getter = "get_string_array" -> [kind |-> "Array", elem |-> "String"]
      [] getter = "get_f32_array" -> [kind |-> "Array", elem |-> "F32"]

OfKind(v, want) ==
    /\ v.kind = want.kind
    /\ want.kind = "Array" => \A i \in 1..Len(v.val) : v.val[i].kind = want.elem

IsError(r, kind) == ~IsOk(r) /\ r.err.kind = kind

WrongKind(md, key, want) == key \in DOMAIN md /\ ~OfKind(md[key], want)

\* C20: for every metadata table and every lookup through the typed
\* getters, an absent key yields MissingKey and a key present with another
\* value kind yields TypeMismatch, never a value; the same holds where the
\* loaders look up the optional keys: a llama.rope.freq_base that is not an
\* f32 and a tokenizer.ggml.merges that is not an array of strings end the
\* load with TypeMismatch and are not treated as an absent key.
C20_MissingOrMismatch ==
    work.done =>
        /\ (work.op = "get" /\ work.key \notin DOMAIN work.md)
               => (IsError(work.out, "MissingKey") /\ work.out.err.key = work.key)
        /\ (work.op = "get" /\ WrongKind(work.md, work.key, Wanted(work.getter)))
               => IsError(work.out, "TypeMismatch")
        /\ (work.op = "config"
            /\ WrongKind(work.md, "llama.rope.freq_base", Wanted("get_f32")))
               => IsError(work.out, "TypeMismatch")
        /\ (work.op = "from_gguf"
            /\ WrongKind(work.md, "tokenizer.ggml.merges", Wanted("get_string_array")))
               => IsError(work.out, "TypeMismatch")

\* C21: every LlamaConfig that LlamaConfig::from_gguf returns successfully
\* has n_embd % n_heads = 0, head_dim = n_embd / n_heads,
\* n_heads % n_kv_heads = 0 and n_heads / n_kv_heads >= 1.
C21_HeadsDivide ==
    (work.op = "config" /\ work.done /\ IsOk(work.out)) =>
        LET cfg == work.out.val
        IN  /\ cfg.n_heads > 0
            /\ cfg.n_embd % cfg.n_heads = 0
            /\ cfg.head_dim = cfg.n_embd \div cfg.n_heads
            /\ cfg.n_kv_heads > 0
            /\ cfg.n_heads % cfg.n_kv_heads = 0
            /\ cfg.n_heads \div cfg.n_kv_heads >= 1

\* The adjacent pair of tokens at index i
PairAt(tokens, i) == <<tokens[i], tokens[i + 1]>>

\* The indices of the adjacent pairs of tokens that have a recorded rank
Ranked(tk, tokens) == {i \in 1..(Len(tokens) - 1) : HasRank(tk, PairAt(tokens, i))}

\* C22: every iteration of encode's merge loop merges the leftmost adjacent
\* pair of minimal rank into one token string and removes the right member;
\* the loop stops exactly when no adjacent pair has a recorded rank, after at
\* most n - 1 merges for n input bytes, and the concatenation of the token
\* strings never changes.  The tokens it stops with are those encode maps
\* to ids.
C22_LeftmostMinimalMerge ==
    work.op = "merge" =>
        /\ Concat(work.tokens) = Concat(work.start)
        /\ work.merges <= Len(work.start) - 1
        /\ work.best # 0 =>
               /\ work.best \in Ranked(work.tk, work.prev)
               /\ \A j \in Ranked(work.tk, work.prev) :
                      LET rank_j == merge_rank(work.tk, PairAt(work.prev, j))
                          rank_b == merge_rank(work.tk, PairAt(work.prev, work.best))
                      IN  rank_b < rank_j \/ (rank_b = rank_j /\ work.best <= j)
               /\ Len(work.tokens) = Len(work.prev) - 1
               /\ \A i \in 1..Len(work.tokens) :
                      work.tokens[i] =
                          IF i < work.best THEN work.prev[i]
                          ELSE IF i = work.best
                               THEN work.prev[i] \o work.prev[i + 1]
                          ELSE work.prev[i + 1]
               /\ ~work.done
        /\ work.done =>
               /\ Ranked(work.tk, work.tokens) = {}
               /\ work.tokens = BpeMerge(work.tk, work.start)
        /\ (work.best = 0 /\ ~work.done) => work.merges = 0

\* A merge at the leftmost of two pairs of the same, minimal rank
C22_Witness ==
    /\ work.op = "merge"
    /\ work.best # 0
    /\ \E j \in Ranked(work.tk, work.prev) :
           /\ j > work.best
           /\ merge_rank(work.tk, PairAt(work.prev, j))
                  = merge_rank(work.tk, PairAt(work.prev, work.best))

Span(pos, n) == pos..(pos + n - 1)

\* C23: forward(tokens, p) with T tokens changes only the K and V rows at
\* positions p..p+T-1 and the len counter; every other row of every layer,
\* the cache's dimensions, the weights and the config are as before,
\* whether the call succeeds or fails.  A successful call has written the
\* rows p..p+T-1 of every layer.
C23_ForwardFrame ==
    (work.op = "forward" /\ work.done) =>
        LET before == work.m.cache
            cache == work.after.cache
            written == Span(work.pos, Len(work.tokens))
        IN  /\ work.after.config = work.m.config
            /\ work.after.weights = work.m.weights
            /\ cache.n_kv_heads = before.n_kv_heads
            /\ cache.head_dim = before.head_dim
            /\ cache.max_seq_len = before.max_seq_len
            /\ DOMAIN cache.k = DOMAIN before.k /\ DOMAIN cache.v = DOMAIN before.v
            /\ \A l \in DOMAIN before.k :
                   /\ DOMAIN cache.k[l] = DOMAIN before.k[l]
                   /\ DOMAIN cache.v[l] = DOMAIN before.v[l]
                   /\ \A p \in DOMAIN before.k[l] \ written :
                          cache.k[l][p] = before.k[l][p] /\ cache.v[l][p] = before.v[l][p]
            /\ \A w \in work.out.writes : w[2] \in written
            /\ work.out.tag = "ok" =>
                   work.out.writes = (DOMAIN before.k) \X written

\* A forward that fails after it wrote a row, on a cache holding rows of an
\* earlier forward above the positions of this one
C23_Witness ==
    /\ work.op = "forward" /\ work.done
    /\ work.out.tag # "ok"
    /\ work.out.writes # {}
    /\ \E l \in DOMAIN work.m.cache.k :
           \E p \in DOMAIN work.m.cache.k[l] :
               /\ p > work.pos + Len(work.tokens) - 1
               /\ work.m.cache.k[l][p] # 0

\* What a generation computes: how it ends, its output and its events, a
\* forward without the cache length before and after it
Computed(run) ==
    [tag |-> run.tag, status |-> run.status, err |-> run.err, output |-> run.output,
     events |-> [i \in 1..Len(run.events) |->
                    IF IsForward(run.events[i])
                    THEN [run.events[i] EXCEPT !.len_before = 0, !.len_after = 0]
                    ELSE run.events[i]]]

Fresh(m) == [m EXCEPT !.cache = FreshCache(m)]

\* C24: a generation started on a session whose cache still holds rows of
\* an earlier generation computes the same logits at every forward, selects
\* the same tokens and ends the same way as that generation on a fresh
\* cache: every forward reads the same rows, all written by the generation
\* itself.
C24_StaleRowsNotRead ==
    (last.ctx # NullHandle /\ ctxs[last.ctx].some /\ ctxs[last.ctx].val.model.some
         /\ Model.cache.len > 0) =>
        \A s \in Texts :
            /\ Computed(GenerateRun(Model, Tk, s, Params(MaxTokens, 0)))
                   = Computed(GenerateRun(Fresh(Model), Tk, s, Params(MaxTokens, 0)))
            /\ Computed(StreamingRun(Model, Tk, s, Params(MaxTokens, 0), Callback(0)))
                   = Computed(StreamingRun(Fresh(Model), Tk, s, Params(MaxTokens, 0),
                                           Callback(0)))

\* A generation with a decode step that ran on a cache holding the rows of
\* an earlier one, non-zero rows among them
C24_Witness ==
    /\ IsRun
    /\ last.len_before >= 2
    /\ \E i \in 2..Len(Ev) : IsForward(Ev[i]) /\ Ev[i].tag = "ok"
    /\ \E l \in DOMAIN Model.cache.k : Model.cache.k[l][1] # 0

\* The events of the generation of the call in work
WorkEv == work.r.run.val.events

\* Every token selected in the call in work is the lowest-id argmax of the
\* logits of the forward before it, and the tokens are those the same call
\* selects with temperature 1, top_k 0, top_p 1 and repetition_penalty 1.
ArgMaxOfRaw ==
    /\ \A i \in 1..Len(WorkEv) :
           IsSample(WorkEv[i]) =>
               /\ i > 1 /\ IsForward(WorkEv[i - 1])
               /\ WorkEv[i].token = ArgMax(ToTokenLogits(WorkEv[i - 1].logits))
    /\ LET plain == Params(work.params.max_tokens, 0)
           m == work.ctx.model.val
           tk == work.ctx.tokenizer.val
       IN  TokensOf(work.r.run.val)
               = IF work.op = "ir_generate"
                 THEN TokensOf(GenerateRun(m, tk, work.prompt.s, plain))
                 ELSE TokensOf(StreamingRun(m, tk, work.prompt.s, plain, Callback(0)))

IsGeneration == work.op \in {"ir_generate", "ir_generate_streaming"} /\ work.done /\ work.r.run.some

\* C25 as stated: for a fixed session state, prompt and max_tokens, the
\* tokens ir_generate and ir_generate_streaming produce are the same for
\* all values of temperature, top_k, top_p, repetition_penalty and seed,
\* every one the lowest-id argmax of the raw logits.
C25_AnyParams == IsGeneration => ArgMaxOfRaw

\* C25, amended: the same for all values of top_k, top_p,
\* repetition_penalty and seed and every temperature by which the division
\* keeps distinct logits distinct, +infinity not among them: a logit
\* divided by an infinite temperature is 0, and the token selected among
\* equal logits is the lowest id, not the argmax of the raw logits.
C25_FiniteTemperature ==
    (IsGeneration /\ work.params.temperature.den # 0) => ArgMaxOfRaw

\* A generation of two tokens, one of them not 0, with no parameter at its
\* neutral value
C25_Witness ==
    /\ IsGeneration
    /\ work.params.temperature = Rat(1, 2)
    /\ work.params.top_k = 2
    /\ work.params.top_p = Rat(1, 2)
    /\ work.params.repetition_penalty = Rat(2, 1)
    /\ work.params.seed = 1
    /\ Len(TokensOf(work.r.run.val)) >= 2
    /\ \E i \in 1..Len(TokensOf(work.r.run.val)) : TokensOf(work.r.run.val)[i] # 0

\* The indices of the forward events and of the sample events of the run
Forwards == {i \in 1..Len(Ev) : IsForward(Ev[i])}

Samples == {i \in 1..Len(Ev) : IsSample(Ev[i])}

\* The last forward, and the last sample, before event i
ForwardBefore(i) == CHOOSE j \in Forwards : j < i /\ \A k \in Forwards : k < i => k <= j

SampleBefore(i) == CHOOSE j \in Samples : j < i /\ \A k \in Samples : k < i => k <= j

\* The prefill forwards the prompt tokens at position 0, writing the
\* positions 0..T-1; the i-th decode step forwards exactly the token
\* selected just before it, at position T + i - 1, where cache.len is that
\* position; each forward starts where the one before it ended; every
\* selection follows a forward of its own that went through.
Contiguous ==
    /\ Ev # <<>> /\ IsForward(Ev[1]) /\ Ev[1].pos = 0
    /\ Ev[1].tag = "ok" =>
           Ev[1].writes = {<<l, p>> : l \in DOMAIN Model.cache.k,
                                      p \in 0..(Len(Ev[1].tokens) - 1)}
    /\ \A i \in Forwards \ {1} :
           LET decode_step == Cardinality({j \in Forwards : j < i})
           IN  /\ \E j \in Samples : j < i
               /\ Ev[i].tokens = <<Ev[SampleBefore(i)].token>>
               /\ Ev[ForwardBefore(i)].tag = "ok"
               /\ SampleBefore(i) > ForwardBefore(i)
               /\ Ev[i].pos = Len(Ev[1].tokens) + decode_step - 1
               /\ Ev[i].pos = Ev[ForwardBefore(i)].pos + Len(Ev[ForwardBefore(i)].tokens)
               /\ Ev[i].len_before = Ev[i].pos
               /\ Ev[i].tag = "ok" =>
                      Ev[i].writes = {<<l, Ev[i].pos>> : l \in DOMAIN Model.cache.k}
    /\ \A i \in Samples :
           /\ \E j \in Forwards : j < i /\ Ev[j].tag = "ok"
           /\ \A j \in Samples : j # i => ForwardBefore(j) # ForwardBefore(i)

\* The forwards made after the last selection
AfterLastSample == {i \in Forwards : \E j \in Samples : j < i} \ {i \in Forwards : \E j \in Samples : j > i}

C27_LenWithinWindow ==
    /\ \A h \in Handles :
           (ctxs[h].some /\ ctxs[h].val.model.some) =>
               ctxs[h].val.model.val.cache.len <= ctxs[h].val.model.val.cache.max_seq_len
    /\ IsRun =>
           \A i \in 1..Len(Ev) :
               IsForward(Ev[i]) =>
                   /\ \A w \in Ev[i].writes : w[2] < Model.cache.max_seq_len
                   /\ Ev[i].len_after <= Model.cache.max_seq_len
                   /\ Ev[i].pos + Len(Ev[i].tokens) > Model.cache.max_seq_len =>
                          Ev[i].tag # "ok"

\* The call in work as ir_generate and as ir_generate_streaming with a
\* callback that always returns true, from the same session state: the one
\* that was made, and the other one computed from the state before it.
AsGenerate ==
    IF work.op = "ir_generate" THEN work.r
    ELSE catch_panic(GenerateBody(work.ctx, work.prompt, work.params, FALSE))

AsStreaming ==
    IF work.op = "ir_generate_streaming" THEN work.r
    ELSE catch_panic(StreamingBody(work.ctx, work.prompt, work.params, Callback(0)))

\* The token ids whose text the callback received, in order
DeliveredIds(run) ==
    LET calls == SelectSeq(run.events, IsCallback)
    IN  [i \in 1..Len(calls) |-> calls[i].token]

\* The selected token ids before EOS: the vector ir_generate decodes
GeneratedIds(tk, run) ==
    LET NotEos(t) == ~IsEos(tk, t)
    IN  SelectSeq(TokensOf(run), NotEos)

\* The token ids ir_generate decoded into the output string it stored
OutputIds(tk, run) == IF run.output.some THEN GeneratedIds(tk, run) ELSE <<>>

\* C28 as stated: for the same session state, prompt and params, the token
\* ids ir_generate_streaming delivers to an always-true callback are the
\* token ids ir_generate decodes into its output, and both calls leave the
\* KV cache in the same state.
C28_DeliveredEqualsOutput ==
    IsGeneration =>
        /\ DeliveredIds(AsStreaming.run.val)
               = OutputIds(work.ctx.tokenizer.val, AsGenerate.run.val)
        /\ AsStreaming.ctx.model.val.cache = AsGenerate.ctx.model.val.cache

\* C28, amended: both calls make the same forwards, select the same tokens,
\* end the same way (return or fault) and leave the same KV cache; the ids
\* delivered are the selected ids before EOS whose text holds no NUL byte,
\* and they are the ids of ir_generate's output whenever ir_generate stores
\* one, which it does not when a forward fails or faults or when the text
\* holds a NUL byte.
C28_SameTokensSameCache ==
    IsGeneration =>
        LET tk == work.ctx.tokenizer.val
            g == AsGenerate.run.val
            st == AsStreaming.run.val
            Sendable(t) == ~HasNul(decode(tk, <<t>>))
        IN  /\ AsGenerate.run.some /\ AsStreaming.run.some
            /\ TokensOf(st) = TokensOf(g)
            /\ SelectSeq(st.events, IsForward) = SelectSeq(g.events, IsForward)
            /\ st.tag = g.tag
            /\ AsStreaming.ctx = AsGenerate.ctx
            /\ st.cache = g.cache
            /\ DeliveredIds(st) = SelectSeq(GeneratedIds(tk, g), Sendable)
            /\ g.output.some => DeliveredIds(st) = OutputIds(tk, g)
            /\ g.output.some <=> /\ g.tag = "ret"
                                 /\ AsGenerate.status \in {"Ok"}
            /\ (g.tag = "ret" /\ ~g.output.some) =>
                   \/ HasNul(decode(tk, GeneratedIds(tk, g)))
                   \/ \E i \in 1..Len(g.events) : IsForward(g.events[i]) /\ g.events[i].tag = "err"

\* A streaming call that delivered two tokens, the second not the first,
\* where ir_generate stores an output
C28_Witness ==
    /\ IsGeneration
    /\ work.op = "ir_generate_streaming"
    /\ Len(DeliveredIds(work.r.run.val)) >= 2
    /\ DeliveredIds(work.r.run.val)[1] # DeliveredIds(work.r.run.val)[2]
    /\ AsGenerate.run.val.output.some
    /\ work.ctx.model.val.cache.len > 0

\* Every K and V row of the cache is zero
AllZero(cache) ==
    \A l \in DOMAIN cache.k : \A p \in DOMAIN cache.k[l] :
        cache.k[l][p] = 0 /\ cache.v[l][p] = 0

\* C29: ir_model_load installs the model and the tokenizer together or not
\* at all: after every step ctx.model is present iff ctx.tokenizer is; a
\* load that fails leaves the model, the tokenizer and the KV cache as they
\* were; a load that succeeds stores a model whose KV cache is all-zero
\* with len 0.
C29_LoadTogether ==
    [][\A h \in Handles :
           /\ ctxs'[h].some => (ctxs'[h].val.model.some <=> ctxs'[h].val.tokenizer.some)
           /\ (last'.op = "ir_model_load" /\ last'.ctx = h /\ last'.status # "Ok") =>
                  ctxs'[h] = ctxs[h]
           /\ (last'.op = "ir_model_load" /\ last'.ctx = h /\ last'.status = "Ok") =>
                  /\ ctxs'[h].val.model.some /\ ctxs'[h].val.tokenizer.some
                  /\ ctxs'[h].val.model.val.cache.len = 0
                  /\ AllZero(ctxs'[h].val.model.val.cache)
                  /\ ctxs'[h].val.model.val.cache = FreshCache(ctxs'[h].val.model.val)
                  /\ ctxs'[h].val.model.val.config.max_seq_len
                         = Disk[last'.path.s].metadata["llama.context_length"].val]_vars

\* A load that failed on a session whose cache holds rows of a generation
C29_Witness ==
    /\ last.op = "ir_model_load"
    /\ last.status = "ErrorModelLoad"
    /\ ctxs[1].some /\ ctxs[1].val.model.some
    /\ ctxs[1].val.model.val.cache.len > 0
    /\ ~AllZero(ctxs[1].val.model.val.cache)

\* The step is a generation call on session h that found no model
UnloadedCall(h) ==
    /\ last'.op \in {"ir_generate", "ir_generate_streaming"}
    /\ last'.ctx = h
    /\ ~ctxs[h].val.model.some

\* The step is a generation call on session h whose prompt encodes to []
EmptyPromptCall(h) ==
    /\ last'.op \in {"ir_generate", "ir_generate_streaming"}
    /\ last'.ctx = h
    /\ last'.run.some
    /\ last'.run.val.events[1].tokens = <<>>

\* No callback invocation, no output string, and the session as it was
NothingDone(h) ==
    /\ ctxs'[h] = ctxs[h]
    /\ last'.run.some =>
           /\ ~last'.run.val.output.some
           /\ \A i \in 1..Len(last'.run.val.events) : ~IsCallback(last'.run.val.events[i])

\* C30: ir_generate and ir_generate_streaming called with an empty prompt
\* or before any model is loaded return ErrorGenerate, without invoking the
\* callback, without writing an output string and without modifying the KV
\* cache.
C30_EmptyOrUnloaded ==
    [][\A h \in Handles :
           (UnloadedCall(h) \/ EmptyPromptCall(h)) =>
               (last'.status = "ErrorGenerate" /\ NothingDone(h))]_vars

====
